---- MODULE Spec2Model ----
(***************************************************************************)
(* A model of the js-arias/earth packages: the plate pixel inventory       *)
(* (model.PixPlate), the reconstruction model (model.Recons) and its       *)
(* total rotations (model.Total), the time pixelation (model.TimePix),     *)
(* the pixel lookup of the isolatitude pixelation (earth.Pixelation) and   *)
(* the rotation tables (rotation.Read, rotation.Rotation).                 *)
(*                                                                         *)
(* Every package is a group of variables with its own next-state relation  *)
(* and its own specification; the variables of the other packages stay at  *)
(* their initial value.                                                    *)
(***************************************************************************)
EXTENDS Integers, Sequences, FiniteSets, TLC

VARIABLES
    tp,         \* TimePix.stages: age -> (pixel -> value)
    tpq,        \* the last TimePix call and what it returned
    tpEver,     \* history: the ages at which a Set was made
    tpLast,     \* history: <<age, pixel>> -> value of the last Set with no
                \* later Del
    rec,        \* Recons.plates: plate -> (pixel -> (age -> stage pixels))
    recq,       \* the last Recons or Total call and what it returned
    recN,       \* number of Recons.Add calls made
    plates,     \* PixPlate.plates: plate -> reference of a pixPlate
    heap,       \* the pixPlate objects made so far: [plate, pix]
    ppMu,       \* PixPlate.mu: the registry lock
    pMu,        \* pixPlate.mu of every object: the plate locks
    th,         \* the PixPlate call every thread is in, and its locals
    ppAdded,    \* the <<plate, pixel>> pairs given to pixPlate.add
    ppN,        \* number of PixPlate calls started
    index,      \* Pixelation.index: the slots of the lookup index
    pixMu,      \* Pixelation.mu
    pxt,        \* the Pixel call every thread is in, and its locals
    pixN,       \* number of Pixel calls started
    rots,       \* the rots of rotation.Read, and then Rotation.p
    rdPhase,    \* "reading" in the loop over the rows of Read, then "done"
    rdN,        \* number of rows read
    rdErr,      \* the row and column named by the error of Read
    rq,         \* the Rotation.Rotation call, and its locals
    ras,        \* the raster of doRaster: the polygon and its projection
    kde,        \* the KDE call: its slice raw, cum and the map it returns
    pk,         \* the PixKey: its maps values, labels and color
    pw,         \* the pixel weights, and the last call made for them
    imp         \* the run of the import command: its goroutines and channels

tpVars == <<tp, tpq, tpEver, tpLast>>

recVars == <<rec, recq, recN>>

ppVars == <<plates, heap, ppMu, pMu, th, ppAdded, ppN>>

pixVars == <<index, pixMu, pxt, pixN>>

rotVars == <<rots, rdPhase, rdN, rdErr, rq>>

rasVars == <<ras>>

kdeVars == <<kde>>

pkVars == <<pk>>

pwVars == <<pw>>

impVars == <<imp>>

vars ==
    <<tp, tpq, tpEver, tpLast, rec, recq, recN, plates, heap, ppMu, pMu, th, ppAdded, ppN,
      index, pixMu, pxt, pixN, rots, rdPhase, rdN, rdErr, rq, ras, kde, pk, pw, imp>>

\* what the operations of one type leave alone: the values of the others
tpFrame == <<recVars, ppVars, pixVars, rotVars, rasVars, kdeVars, pkVars, pwVars, impVars>>

recFrame == <<tpVars, ppVars, pixVars, rotVars, rasVars, kdeVars, pkVars, pwVars, impVars>>

ppFrame == <<tpVars, recVars, pixVars, rotVars, rasVars, kdeVars, pkVars, pwVars, impVars>>

pixFrame == <<tpVars, recVars, ppVars, rotVars, rasVars, kdeVars, pkVars, pwVars, impVars>>

rotFrame == <<tpVars, recVars, ppVars, pixVars, rasVars, kdeVars, pkVars, pwVars, impVars>>

rasFrame == <<tpVars, recVars, ppVars, pixVars, rotVars, kdeVars, pkVars, pwVars, impVars>>

kdeFrame == <<tpVars, recVars, ppVars, pixVars, rotVars, rasVars, pkVars, pwVars, impVars>>

pkFrame == <<tpVars, recVars, ppVars, pixVars, rotVars, rasVars, kdeVars, pwVars, impVars>>

pwFrame == <<tpVars, recVars, ppVars, pixVars, rotVars, rasVars, kdeVars, pkVars, impVars>>

impFrame == <<tpVars, recVars, ppVars, pixVars, rotVars, rasVars, kdeVars, pkVars, pwVars>>

(***************************************************************************)
(* Bounds of the model.                                                    *)
(***************************************************************************)
\* number of pixels of the pixelation of the time pixelation (pix.Len())
TpPixLen == 1
\* largest value stored in a time pixelation
MaxValue == 1
\* number of Recons.Add calls
MaxAdds == 2
\* number of PixPlate calls
MaxCalls == 2
\* number of Pixelation.Pixel calls
MaxLookups == 2
\* number of rows of a rotation file with one plate
MaxRows == 5
\* number of rows of a rotation file with several plates
MaxRotRows == 3

(***************************************************************************)
(* Helpers that stand for library code.                                    *)
(***************************************************************************)
None == [none |-> TRUE]

Min(S) == CHOOSE x \in S : \A y \in S : x <= y

Max(S) == CHOOSE x \in S : \A y \in S : y <= x

Range(s) == {s[i] : i \in 1..Len(s)}

\* slices.Sort over the elements of a set: the ascending sequence
RECURSIVE SortSet(_)
SortSet(S) ==
    IF S = {} THEN <<>>
    ELSE LET m == Min(S) IN <<m>> \o SortSet(S \ {m})

\* a map with the key k set to the value x, and with the key k deleted
MapSet(m, k, x) == [q \in DOMAIN m \cup {k} |-> IF q = k THEN x ELSE m[q]]

MapDelete(m, k) == [q \in DOMAIN m \ {k} |-> m[q]]

\* slices.Sort of a slice: the same elements, repeated ones kept, ascending
RECURSIVE Insert(_, _)
Insert(s, x) ==
    IF s = <<>> THEN <<x>>
    ELSE IF x < Head(s) THEN <<x>> \o s
    ELSE <<Head(s)>> \o Insert(Tail(s), x)

RECURSIVE Sort(_)
Sort(s) == IF s = <<>> THEN <<>> ELSE Insert(Sort(Tail(s)), Head(s))

\* slices.BinarySearch(st, target) on an ascending sequence: the 0-based
\* position of the first element >= target (len(st) when there is none),
\* and whether the element at that position is the target
BinarySearch(st, target) ==
    LET i == Cardinality({k \in 1..Len(st) : st[k] < target})
    IN  [pos |-> i, found |-> (i < Len(st) /\ st[i + 1] = target)]

\* st[i] for a 0-based index i of a Go slice: an index out of range is a
\* run time panic
Index(st, i) ==
    IF i < 0 \/ i >= Len(st) THEN [panic |-> TRUE, val |-> 0]
    ELSE [panic |-> FALSE, val |-> st[i + 1]]

(***************************************************************************)
(* Closest stage age: the same code in TimePix.ClosestStageAge,            *)
(* Total.ClosesStageAge and StageRot.ClosestStageAge.                      *)
(***************************************************************************)
ClosestStageAgeNext(st, age) ==
    LET r == BinarySearch(st, age)
    IN  IF r.found THEN [panic |-> FALSE, val |-> age]
        ELSE Index(st, r.pos)

ClosestStageAge(st, age) ==
    LET r == BinarySearch(st, age)
    IN  IF r.found THEN [panic |-> FALSE, val |-> age]
        ELSE Index(st, r.pos - 1)

(***************************************************************************)
(* TimePix                                                                 *)
(***************************************************************************)
\* ages, in million years, at which stages are set
StageAges == {100, 125, 140}
\* ages, in million years, that are asked for
QueryAges == {50, 100, 110, 125, 130, 140, 150}
\* pixel IDs given to the calls: TpPixLen is not a pixel of the pixelation
TpPixArgs == 0..TpPixLen
Values == 0..MaxValue

TpInit ==
    /\ tp = <<>>
    /\ tpq = [op |-> "new"]
    /\ tpEver = {}
    /\ tpLast = <<>>

\* TimePix.Stages
TpStages == SortSet(DOMAIN tp)

\* TimePix.At
TpAt(age, pixel) ==
    IF age \notin DOMAIN tp THEN [val |-> 0, ok |-> FALSE]
    ELSE IF pixel \in DOMAIN tp[age]
         THEN [val |-> tp[age][pixel], ok |-> TRUE]
         ELSE [val |-> 0, ok |-> TRUE]

\* TimePix.AtClosest
TpAtClosest(age, pixel) ==
    LET a == ClosestStageAge(TpStages, age)
    IN  IF a.panic THEN a
        ELSE [panic |-> FALSE, val |-> TpAt(a.val, pixel).val]

\* TimePix.Set
Set(age, pixel, value) ==
    /\ IF pixel >= TpPixLen
       THEN /\ tpq' = [op |-> "Set", age |-> age, pixel |-> pixel,
                       panic |-> TRUE]
            /\ UNCHANGED <<tp, tpEver, tpLast>>
       ELSE LET st == IF age \in DOMAIN tp THEN tp[age] ELSE <<>>
                nv == [p \in DOMAIN st \cup {pixel} |->
                        IF p = pixel THEN value ELSE st[p]]
            IN  /\ tp' = [a \in DOMAIN tp \cup {age} |->
                            IF a = age THEN nv ELSE tp[a]]
                /\ tpq' = [op |-> "Set", age |-> age, pixel |-> pixel,
                           panic |-> FALSE]
                /\ tpEver' = tpEver \cup {age}
                /\ tpLast' = [k \in DOMAIN tpLast \cup {<<age, pixel>>} |->
                                IF k = <<age, pixel>> THEN value
                                ELSE tpLast[k]]

\* a Del that removes the stage with its last pixel
DelStage(age, pixel) ==
    /\ tpq' = [op |-> "Del", age |-> age, pixel |-> pixel, panic |-> FALSE]
    /\ tpLast' = [k \in DOMAIN tpLast \ {<<age, pixel>>} |-> tpLast[k]]
    /\ UNCHANGED tpEver
    /\ IF pixel >= TpPixLen \/ age \notin DOMAIN tp
       THEN UNCHANGED tp
       ELSE IF DOMAIN tp[age] \subseteq {pixel}
       THEN tp' = [a \in DOMAIN tp \ {age} |-> tp[a]]
       ELSE tp' = [tp EXCEPT ![age] =
                    [p \in DOMAIN tp[age] \ {pixel} |-> tp[age][p]]]

\* TimePix.Del
Del(age, pixel) ==
    /\ tpq' = [op |-> "Del", age |-> age, pixel |-> pixel, panic |-> FALSE]
    /\ tpLast' = [k \in DOMAIN tpLast \ {<<age, pixel>>} |-> tpLast[k]]
    /\ UNCHANGED tpEver
    /\ IF pixel >= TpPixLen \/ age \notin DOMAIN tp
       THEN UNCHANGED tp
       ELSE tp' = [tp EXCEPT ![age] =
                    [p \in DOMAIN tp[age] \ {pixel} |-> tp[age][p]]]

\* a call of TimePix.At
CallAt(age, pixel) ==
    /\ tpq' = [op |-> "At", age |-> age, pixel |-> pixel,
               res |-> TpAt(age, pixel)]
    /\ UNCHANGED <<tp, tpEver, tpLast>>

\* a call of TimePix.ClosestStageAge
CallClosestStageAge(age) ==
    /\ tpq' = [op |-> "ClosestStageAge", age |-> age,
               stages |-> TpStages,
               res |-> ClosestStageAge(TpStages, age)]
    /\ UNCHANGED <<tp, tpEver, tpLast>>

\* earth.Age, in the million years of the ages used here
Age == 4540

\* Bounds that takes the position of the search as it is
BoundsNext(st, age) ==
    LET r == BinarySearch(st, age)
        i == r.pos
        young == Index(st, i)
        old == IF i + 1 >= Len(st) THEN [panic |-> FALSE, val |-> Age]
               ELSE Index(st, i + 1)
    IN  [panic |-> (young.panic \/ old.panic), old |-> old.val,
         young |-> young.val]

\* TimePix.Bounds on the stages st
Bounds(st, age) ==
    LET r == BinarySearch(st, age)
        i == IF r.found THEN r.pos ELSE r.pos - 1
        young == Index(st, i)
        old == IF i + 1 >= Len(st) THEN [panic |-> FALSE, val |-> Age]
               ELSE Index(st, i + 1)
    IN  [panic |-> (young.panic \/ old.panic), old |-> old.val,
         young |-> young.val]

\* a call of TimePix.Bounds
CallBounds(age) ==
    /\ tpq' = [op |-> "Bounds", age |-> age, stages |-> TpStages,
               res |-> Bounds(TpStages, age)]
    /\ UNCHANGED <<tp, tpEver, tpLast>>

\* a call of TimePix.AtClosest
CallAtClosest(age, pixel) ==
    /\ pixel < TpPixLen
    /\ tpq' = [op |-> "AtClosest", age |-> age, pixel |-> pixel,
               stages |-> TpStages,
               res |-> TpAtClosest(age, pixel)]
    /\ UNCHANGED <<tp, tpEver, tpLast>>

TpSet ==
    /\ \E a \in StageAges, p \in TpPixArgs, v \in Values : Set(a, p, v)
    /\ UNCHANGED tpFrame

TpDel ==
    /\ \E a \in StageAges, p \in TpPixArgs : Del(a, p)
    /\ UNCHANGED tpFrame

TpClosestStageAge ==
    /\ \E a \in QueryAges : CallClosestStageAge(a)
    /\ UNCHANGED tpFrame

TpBounds ==
    /\ \E a \in QueryAges : CallBounds(a)
    /\ UNCHANGED tpFrame

TpAtCall ==
    /\ \E a \in StageAges, p \in TpPixArgs : CallAt(a, p)
    /\ UNCHANGED tpFrame

TpAtClosestCall ==
    /\ \E a \in QueryAges, p \in TpPixArgs : CallAtClosest(a, p)
    /\ UNCHANGED tpFrame

(***************************************************************************)
(* Recons                                                                  *)
(***************************************************************************)
\* the pixels of the pixelation of the reconstruction model
RecPixels == {0, 1}
\* Pixelation.Len
PixLen == Cardinality(RecPixels)
\* pixel IDs given as present pixels: PixLen is not a pixel
RecPixArgs == RecPixels \cup {PixLen}
\* pixel IDs given as stage pixels
RecStagePix == RecPixels
RecPlates == {1, 2}
\* ages of the stages, in million years
RecAges == {100, 140}
\* the slices of stage pixels given to Add
RecLists == UNION {[1..n -> RecStagePix] : n \in 0..2}
\* the locations given to Add: at most two present pixels; the slice of a
\* present pixel that is not a pixel is never read, and is <<0>>
RecLocations ==
    UNION {{f \in [K -> RecLists] :
                \A k \in K : k >= PixLen => f[k] = <<0>>} :
            K \in {k \in SUBSET RecPixArgs : Cardinality(k) <= 2}}

RecIdle == [op |-> "idle"]

RecInit ==
    /\ rec = <<>>
    /\ recq = RecIdle
    /\ recN = 0

\* the loop "add the pixels" of Recons.Add, without the sort: the IDs of
\* stPix not yet used are appended to rot
RECURSIVE AppendAll(_, _)
AppendAll(rot, stPix) ==
    IF stPix = <<>> THEN rot
    ELSE AppendAll(Append(rot, Head(stPix)), Tail(stPix))

RECURSIVE AppendNew(_, _)
AppendNew(rot, stPix) ==
    IF stPix = <<>> THEN rot
    ELSE IF Head(stPix) \in Range(rot) THEN AppendNew(rot, Tail(stPix))
    ELSE AppendNew(Append(rot, Head(stPix)), Tail(stPix))

\* the stage pixels stored by Recons.Add for one present pixel
MergeStageReplace(rot, stPix) == Sort(AppendNew(<<>>, stPix))

MergeStage(rot, stPix) == Sort(AppendNew(rot, stPix))

\* the body of the loop over locations of Recons.Add, on the pixels p.pix
\* of the plate
AddPixel(pix, pixel, stPix, age) ==
    LET px == IF pixel \in DOMAIN pix THEN pix[pixel] ELSE <<>>
        rot == IF age \in DOMAIN px THEN px[age] ELSE <<>>
        npx == [a \in DOMAIN px \cup {age} |->
                 IF a = age THEN MergeStage(rot, stPix) ELSE px[a]]
    IN  [q \in DOMAIN pix \cup {pixel} |->
          IF q = pixel THEN npx ELSE pix[q]]

\* the loop over the keys of locations; the keys are different pixels, so
\* the order in which the map is ranged over does not change the result
RECURSIVE AddPixels(_, _, _, _)
AddPixels(pix, loc, keys, age) ==
    IF keys = {} THEN pix
    ELSE LET k == Min(keys)
         IN  AddPixels(AddPixel(pix, k, loc[k], age), loc, keys \ {k}, age)

\* the present pixels of locations that are not pixels of the pixelation
InvalidOver(loc) == {k \in DOMAIN loc : k > PixLen}

Invalid(loc) == {k \in DOMAIN loc : k >= PixLen}

\* Recons.Add. A present pixel >= Len panics when the range over the map
\* reaches it: the pixels ranged over before it, any subset of the other
\* ones, are already stored.
Add(plate, loc, age) ==
    /\ recq = RecIdle
    /\ recN < MaxAdds
    /\ recN' = recN + 1
    /\ LET pix == IF plate \in DOMAIN rec THEN rec[plate] ELSE <<>>
           bad == Invalid(loc)
           store(keys) ==
               [q \in DOMAIN rec \cup {plate} |->
                 IF q = plate THEN AddPixels(pix, loc, keys, age)
                 ELSE rec[q]]
       IN  IF bad = {}
           THEN /\ rec' = store(DOMAIN loc)
                /\ recq' = [op |-> "Add", plate |-> plate, loc |-> loc,
                            age |-> age, panic |-> FALSE]
           ELSE \E done \in SUBSET (DOMAIN loc \ bad) :
                /\ rec' = store(done)
                /\ recq' = [op |-> "Add", plate |-> plate, loc |-> loc,
                            age |-> age, panic |-> TRUE]

RecAdd ==
    /\ \E plate \in RecPlates, loc \in RecLocations, age \in RecAges :
          Add(plate, loc, age)
    /\ UNCHANGED recFrame

\* the int values that a caller can give to Add as a pixel ID, the ones
\* below 0 and the ones from Pixelation.Len on included
RecAnyIDs == {-1, 0, PixLen}
\* locations of one present pixel with at most one stage pixel, of any ID
RecAnyLocations ==
    UNION {[{k} -> UNION {[1..n -> RecAnyIDs] : n \in 0..1}] :
            k \in RecAnyIDs}

\* Add called with IDs of any value
RecAddAny ==
    /\ \E plate \in RecPlates, loc \in RecAnyLocations, age \in RecAges :
          Add(plate, loc, age)
    /\ UNCHANGED recFrame

\* the caller goes on to its next call: the arguments and the result of
\* the last one are dropped
RecReturn ==
    /\ recq # RecIdle
    /\ recq' = RecIdle
    /\ UNCHANGED <<rec, recN>>
    /\ UNCHANGED recFrame

\* Recons.Plates
RecPlateList == SortSet(DOMAIN rec)

\* Recons.Stages
RecStages ==
    SortSet(UNION {UNION {DOMAIN rec[p][q] : q \in DOMAIN rec[p]} :
                    p \in DOMAIN rec})

(***************************************************************************)
(* Total                                                                   *)
(***************************************************************************)
\* Recons.PixStage: the present pixels of a plate that have stage pixels
\* at an age, and their stage pixels
PixStage(plate, age) ==
    IF plate \notin DOMAIN rec THEN <<>>
    ELSE LET pix == rec[plate]
             has == {q \in DOMAIN pix :
                        age \in DOMAIN pix[q] /\ Len(pix[q][age]) > 0}
         IN  [q \in has |-> pix[q][age]]

\* Rotation.removeDuplicates
RemoveDuplicates(rot) == [px \in DOMAIN rot |-> SortSet(Range(rot[px]))]

\* the loop over the plates of NewTotal for one present pixel: the stage
\* pixels of every plate are appended
RECURSIVE AppendPlates(_, _, _)
AppendPlates(pls, from, age) ==
    IF pls = <<>> THEN <<>>
    ELSE LET sp == PixStage(Head(pls), age)
         IN  (IF from \in DOMAIN sp THEN sp[from] ELSE <<>>)
                \o AppendPlates(Tail(pls), from, age)

\* NewTotal
NewTotal ==
    [inverse |-> FALSE,
     stages |->
        [a \in Range(RecStages) |->
            LET keys == UNION {DOMAIN PixStage(p, a) : p \in DOMAIN rec}
            IN  [From |-> 0, To |-> a,
                 Rot |-> RemoveDuplicates(
                    [from \in keys |-> AppendPlates(RecPlateList, from, a)])]]]

\* Total.Stages
TotalStages(t) ==
    LET keys == SortSet(DOMAIN t.stages)
    IN  Sort([i \in 1..Len(keys) |->
                IF t.inverse THEN t.stages[keys[i]].From
                ELSE t.stages[keys[i]].To])

\* Total.ClosesStageAge
ClosesStageAge(t, age) == ClosestStageAge(TotalStages(t), age)

\* Total.Rotation: a stage that is not a key of t.stages is a nil rotation,
\* and reading its map panics
TotalRotation(t, age) ==
    LET a == ClosesStageAge(t, age)
    IN  IF a.panic \/ a.val \notin DOMAIN t.stages
        THEN [panic |-> TRUE, val |-> <<>>]
        ELSE [panic |-> FALSE, val |-> t.stages[a.val].Rot]

\* the loop of Total.Inverse over a rotation: every present pixel is
\* appended to the pixels of each of its stage pixels
InvertRotAssign(tot) ==
    [px \in UNION {Range(tot[id]) : id \in DOMAIN tot} |->
        <<Max({id \in DOMAIN tot : px \in Range(tot[id])})>>]

InvertRot(tot) ==
    [px \in UNION {Range(tot[id]) : id \in DOMAIN tot} |->
        SortSet({id \in DOMAIN tot : px \in Range(tot[id])})]

\* Total.Inverse
TotalInverse(t) ==
    [inverse |-> TRUE,
     stages |->
        [a \in Range(TotalStages(t)) |->
            [From |-> a, To |-> 0,
             Rot |-> RemoveDuplicates(InvertRot(TotalRotation(t, a).val))]]]

\* a call of NewTotal(rec).Inverse().Inverse()
CallInverseInverse ==
    /\ recq = RecIdle
    /\ recq' = [op |-> "Inverse.Inverse", tot |-> NewTotal,
                inv |-> TotalInverse(TotalInverse(NewTotal))]
    /\ UNCHANGED <<rec, recN>>
    /\ UNCHANGED recFrame

\* the ages asked of a Total: before, at, between and after its stages
TotAges == {50, 100, 125, 150}

\* a call of NewTotal(rec).Rotation(age)
CallTotalRotation(age) ==
    /\ recq = RecIdle
    /\ recq' = [op |-> "Total.Rotation", age |-> age,
                stages |-> TotalStages(NewTotal),
                res |-> TotalRotation(NewTotal, age)]
    /\ UNCHANGED <<rec, recN>>

TotRotation ==
    /\ \E age \in TotAges : CallTotalRotation(age)
    /\ UNCHANGED recFrame

(***************************************************************************)
(* Recons as a TSV file                                                    *)
(***************************************************************************)
\* the slices of a slice of slices, one after the other
RECURSIVE Flatten(_)
Flatten(ss) == IF ss = <<>> THEN <<>> ELSE Head(ss) \o Flatten(Tail(ss))

\* Recons.TSV: the rows written, the numbers of a row as numbers (the
\* text of an integer reads back as that integer); the equator is the same
\* in all rows
TSVRows(r) ==
    LET pls == SortSet(DOMAIN r)
        ofStage(p, id, a) ==
            [n \in 1..Len(r[p][id][a]) |->
                [plate |-> p, pixel |-> id, age |-> a,
                 stagePixel |-> r[p][id][a][n]]]
        ofPixel(p, id) ==
            LET st == SortSet(DOMAIN r[p][id])
            IN  Flatten([k \in 1..Len(st) |-> ofStage(p, id, st[k])])
        ofPlate(p) ==
            LET pxs == SortSet(DOMAIN r[p])
            IN  Flatten([j \in 1..Len(pxs) |-> ofPixel(p, pxs[j])])
    IN  Flatten([i \in 1..Len(pls) |-> ofPlate(pls[i])])

\* the loop over the rows of ReadReconsTSV from the row i, on the plates
\* r made so far; err is the first bad row, or 0
RECURSIVE ReadRecRows(_, _, _)
ReadRecRows(r, rows, i) ==
    IF i > Len(rows) THEN [err |-> 0, rec |-> r]
    ELSE LET row == rows[i]
             pix == IF row.plate \in DOMAIN r THEN r[row.plate] ELSE <<>>
             px == IF row.pixel \in DOMAIN pix THEN pix[row.pixel] ELSE <<>>
             rot == IF row.age \in DOMAIN px THEN px[row.age] ELSE <<>>
         IN  IF row.pixel >= PixLen THEN [err |-> i, rec |-> r]
             ELSE IF row.stagePixel >= PixLen THEN [err |-> i, rec |-> r]
             ELSE ReadRecRows(
                    MapSet(r, row.plate,
                        MapSet(pix, row.pixel,
                            MapSet(px, row.age, Append(rot, row.stagePixel)))),
                    rows, i + 1)

\* ReadReconsTSV: a file without rows is an error; the lists of stage
\* pixels are left ascending and without duplicates
ReadReconsTSV(rows) ==
    LET rd == ReadRecRows(<<>>, rows, 1)
    IN  IF rd.err # 0 THEN [err |-> TRUE, rec |-> <<>>]
        ELSE IF rows = <<>> THEN [err |-> TRUE, rec |-> <<>>]
        ELSE [err |-> FALSE,
              rec |-> [p \in DOMAIN rd.rec |->
                        [id \in DOMAIN rd.rec[p] |->
                          [a \in DOMAIN rd.rec[p][id] |->
                            SortSet(Range(rd.rec[p][id][a]))]]]]

\* the model is written with TSV and the text is read back
CallTSVRead ==
    /\ recq = RecIdle
    /\ LET rows == TSVRows(rec)
           rd == ReadReconsTSV(rows)
       IN  recq' = [op |-> "TSV", rows |-> rows, err |-> rd.err,
                    read |-> rd.rec]
    /\ UNCHANGED <<rec, recN>>
    /\ UNCHANGED recFrame

(***************************************************************************)
(* Properties of Recons and Total                                          *)
(***************************************************************************)
\* the stage pixels of a present pixel of a plate at an age in the model r
StageList(r, plate, pixel, age) ==
    IF plate \in DOMAIN r
    THEN IF pixel \in DOMAIN r[plate]
         THEN IF age \in DOMAIN r[plate][pixel]
              THEN r[plate][pixel][age]
              ELSE <<>>
         ELSE <<>>
    ELSE <<>>

\* C2: for every plate, present pixel and age the stored list of stage
\* pixels is strictly ascending, so it holds no ID twice.
C2_StageListsAscending ==
    \A p \in DOMAIN rec : \A q \in DOMAIN rec[p] : \A a \in DOMAIN rec[p][q] :
        \A i \in 1..(Len(rec[p][q][a]) - 1) :
            rec[p][q][a][i] < rec[p][q][a][i + 1]

\* C2, its case: a second Add gave <<1, 1>> for a pixel that had stage
\* pixel 0, and the list is <<0, 1>>
C2_Witness ==
    /\ recq.op = "Add"
    /\ ~recq.panic
    /\ recN = 2
    /\ 0 \in DOMAIN recq.loc
    /\ recq.loc[0] = <<1, 1>>
    /\ StageList(rec, recq.plate, 0, recq.age) = <<0, 1>>

\* C17: an Add called with locations that have a present pixel >= the
\* number of pixels of the pixelation panics: it does not return.
C17_InvalidPixelPanics ==
    (recq.op = "Add" /\ \E k \in DOMAIN recq.loc : k >= PixLen)
        => recq.panic

\* C17, its case: a second Add with a pixel and the ID PixLen as present
\* pixels has panicked
C17_Witness ==
    /\ recq.op = "Add"
    /\ recN = 2
    /\ DOMAIN recq.loc = {0, PixLen}
    /\ recq.panic

\* the present pixels and the stage pixels that the model stores
StoredIDs ==
    UNION {DOMAIN rec[p] \cup
            UNION {UNION {Range(rec[p][q][a]) : a \in DOMAIN rec[p][q]} :
                    q \in DOMAIN rec[p]} :
           p \in DOMAIN rec}

\* C28: after an Add that returns normally, every present pixel and every
\* stage pixel that the model stores is a pixel of the pixelation of the
\* model (0 <= id < Len).
C28_StoredIdsAreValid ==
    (recq.op = "Add" /\ ~recq.panic) => StoredIDs \subseteq 0..(PixLen - 1)

\* C29: an Add that panics on a present pixel that is not a pixel leaves
\* the model as it was before the call: the plates, the present pixels,
\* the stages and the lists of stage pixels are the same.
C29_AbortedAddChangesNothing ==
    [][(recq = RecIdle /\ recq'.op = "Add" /\ recq'.panic) => rec' = rec]_vars

\* C23: a model built by Add calls that is written with TSV is read back
\* without an error, and the model read has the plates, present pixels,
\* stages and lists of stage pixels of the model written.
C23_TSVRoundTrip ==
    (recq.op = "TSV" /\ recN > 0) => (~recq.err /\ recq.read = rec)

\* C4: an Add that returns leaves, for each present pixel of its
\* locations, the ascending list of the union of the list it had and the
\* list given, and leaves the list of every other plate, pixel and age as
\* it was.
C4_AddIsUnion ==
    [][(recq'.op = "Add" /\ recq = RecIdle /\ ~recq'.panic)
        => \A p \in RecPlates, q \in RecPixels, a \in RecAges :
            StageList(rec', p, q, a) =
                IF p = recq'.plate /\ a = recq'.age /\ q \in DOMAIN recq'.loc
                THEN SortSet(Range(StageList(rec, p, q, a))
                                \cup Range(recq'.loc[q]))
                ELSE StageList(rec, p, q, a)]_vars

\* C4, its case: a second Add gave <<1>> for a pixel that had stage pixel
\* 0 and left another pixel of the plate alone
C4_Witness ==
    /\ recq.op = "Add"
    /\ ~recq.panic
    /\ recN = 2
    /\ DOMAIN recq.loc = {0}
    /\ recq.loc[0] = <<1>>
    /\ StageList(rec, recq.plate, 0, recq.age) = <<0, 1>>
    /\ StageList(rec, recq.plate, 1, recq.age) = <<0>>

\* the pixels a rotation gives for a pixel
PixSet(rot, px) == IF px \in DOMAIN rot THEN Range(rot[px]) ELSE {}

\* C10: Total(rec).Inverse().Inverse() has the stages of Total(rec) and at
\* every stage gives every pixel the same set of pixels as Total(rec).
C10_InverseInverse ==
    recq.op = "Inverse.Inverse"
        => /\ TotalStages(recq.inv) = TotalStages(recq.tot)
           /\ \A a \in Range(TotalStages(recq.tot)) :
                LET r1 == TotalRotation(recq.tot, a)
                    r2 == TotalRotation(recq.inv, a)
                IN  /\ ~r1.panic
                    /\ ~r2.panic
                    /\ \A px \in RecPixArgs \cup RecStagePix :
                        PixSet(r2.val, px) = PixSet(r1.val, px)

\* C10, its case: a model of two stages in which, at stage 100, pixel 0
\* goes to pixels 0 and 1 and pixel 1 goes to pixel 0 as well
C10_Witness ==
    /\ recq.op = "Inverse.Inverse"
    /\ DOMAIN recq.tot.stages = {100, 140}
    /\ DOMAIN recq.tot.stages[100].Rot = {0, 1}
    /\ recq.tot.stages[100].Rot[0] = <<0, 1>>
    /\ recq.tot.stages[100].Rot[1] = <<0>>
    /\ DOMAIN recq.inv.stages = {100, 140}

(***************************************************************************)
(* PixPlate                                                                *)
(***************************************************************************)
Threads == {1, 2}

\* the goroutines that use a PixPlate: the third one only reads
PpThreads == {1, 2, 3}
PpPlates == {1, 2}
\* the pixels of the pixelation of the PixPlate, and Pixelation.Len
PpPixelIDs == {0, 1}

PpLen == Cardinality(PpPixelIDs)
\* the slices of pixel IDs given to AddPixels: PpLen is not a pixel
PpLists == UNION {[1..n -> 0..PpLen] : n \in 1..2}
PpNames == {"a"}
PpBegins == {10}
PpEnds == {0}

\* a sync.RWMutex: the writer that holds it (0 for none) and the readers
\* that hold it
Unlocked == [w |-> 0, r |-> {}]

CanLock(mu) == mu.w = 0 /\ mu.r = {}

CanRLock(mu) == mu.w = 0

ThIdle == [pc |-> "idle"]

PpInit ==
    /\ plates = <<>>
    /\ heap = <<>>
    /\ ppMu = Unlocked
    /\ pMu = <<>>
    /\ th = [t \in PpThreads |-> ThIdle]
    /\ ppAdded = {}
    /\ ppN = 0

\* an add that takes the name of every later begin, empty or not
addAnyName(pix, plate, id, name, begin, end) ==
    IF id \notin DOMAIN pix
    THEN [q \in DOMAIN pix \cup {id} |->
            IF q = id
            THEN [Name |-> name, ID |-> id, Plate |-> plate,
                  Begin |-> begin, End |-> end]
            ELSE pix[q]]
    ELSE LET px == pix[id]
             n1 == IF px.Name = "" THEN name ELSE px.Name
             e1 == IF px.End > end THEN end ELSE px.End
             b1 == IF px.Begin < begin THEN begin ELSE px.Begin
             n2 == IF px.Begin < begin THEN name ELSE n1
         IN  [pix EXCEPT ![id] =
                [px EXCEPT !.Name = n2, !.Begin = b1, !.End = e1]]

\* pixPlate.add on the pixels pix of the plate
add(pix, plate, id, name, begin, end) ==
    IF id \notin DOMAIN pix
    THEN [q \in DOMAIN pix \cup {id} |->
            IF q = id
            THEN [Name |-> name, ID |-> id, Plate |-> plate,
                  Begin |-> begin, End |-> end]
            ELSE pix[q]]
    ELSE LET px == pix[id]
             n1 == IF px.Name = "" THEN name ELSE px.Name
             e1 == IF px.End > end THEN end ELSE px.End
             b1 == IF px.Begin < begin THEN begin ELSE px.Begin
             n2 == IF px.Begin < begin /\ name # "" THEN name ELSE n1
         IN  [pix EXCEPT ![id] =
                [px EXCEPT !.Name = n2, !.Begin = b1, !.End = e1]]

\* the pixel IDs that Pixels would list for a plate with the registry pl
\* and the objects hp
PlateIDs(pl, hp, plate) ==
    IF plate \in DOMAIN pl THEN DOMAIN hp[pl[plate]].pix ELSE {}

\* a call of Pixels that has not returned keeps, as history, the sets of
\* pixel IDs that its plate has held since the call: thn, pl and hp are
\* the threads, the registry and the objects after a step
Observe(thn, pl, hp) ==
    [u \in DOMAIN thn |->
        IF thn[u].pc # "idle" /\ thn[u].op = "Pixels"
        THEN [thn[u] EXCEPT !.during = @ \cup {PlateIDs(pl, hp, thn[u].plate)}]
        ELSE thn[u]]

\* the start of a call of AddPixels
StartAddPixels(t, plate, name, pixels, begin, end) ==
    /\ th[t].pc = "idle"
    /\ ppN' = ppN + 1
    /\ th' = [th EXCEPT ![t] =
                [pc |-> "rlock", op |-> "AddPixels", plate |-> plate,
                 name |-> name, pixels |-> pixels, begin |-> begin,
                 end |-> end, p |-> 0, ok |-> FALSE, k |-> 1]]
    /\ UNCHANGED <<plates, heap, ppMu, pMu, ppAdded>>

\* the start of a call of Pixels
StartPixels(t, plate) ==
    /\ th[t].pc = "idle"
    /\ ppN' = ppN + 1
    /\ th' = [th EXCEPT ![t] =
                [pc |-> "rlock", op |-> "Pixels", plate |-> plate,
                 p |-> 0, ok |-> FALSE, pxs |-> <<>>,
                 during |-> {PlateIDs(plates, heap, plate)}]]
    /\ UNCHANGED <<plates, heap, ppMu, pMu, ppAdded>>

\* a thread calls AddPixels
CallAddPixels(t) ==
    /\ ppN < MaxCalls
    /\ \E plate \in PpPlates, pixels \in PpLists, name \in PpNames,
          begin \in PpBegins, end \in PpEnds :
            StartAddPixels(t, plate, name, pixels, begin, end)

\* the start of a call of Add: id is the pixel of the coordinates
StartAdd(t, plate, name, id, begin, end) ==
    /\ th[t].pc = "idle"
    /\ ppN' = ppN + 1
    /\ th' = [th EXCEPT ![t] =
                [pc |-> "rlock", op |-> "Add", plate |-> plate,
                 name |-> name, pixels |-> <<id>>, begin |-> begin,
                 end |-> end, p |-> 0, ok |-> FALSE, k |-> 1]]
    /\ UNCHANGED <<plates, heap, ppMu, pMu, ppAdded>>

\* a thread calls Add
CallAdd(t) ==
    /\ ppN < MaxCalls
    /\ \E plate \in PpPlates, id \in PpPixelIDs, name \in PpNames,
          begin \in PpBegins, end \in PpEnds :
            StartAdd(t, plate, name, id, begin, end)

\* a thread calls Pixels
CallPixels(t) ==
    /\ ppN < MaxCalls
    /\ \E plate \in PpPlates : StartPixels(t, plate)

IsWriter(t) == th[t].op \in {"Add", "AddPixels"}

\* pp.mu.RLock() of PixPlate.pixPlate and of PixPlate.Pixels
RegRLock(t) ==
    /\ th[t].pc = "rlock"
    /\ CanRLock(ppMu)
    /\ ppMu' = [ppMu EXCEPT !.r = @ \cup {t}]
    /\ th' = [th EXCEPT ![t].pc = "lookup"]
    /\ UNCHANGED <<plates, heap, pMu, ppAdded, ppN>>

\* a lookup that takes whatever plate the registry holds
RegLookupAny(t) ==
    /\ th[t].pc = "lookup"
    /\ th' = [th EXCEPT ![t].pc = "runlock",
                        ![t].ok = (DOMAIN plates # {}),
                        ![t].p = IF DOMAIN plates # {}
                                 THEN plates[Min(DOMAIN plates)] ELSE 0]
    /\ UNCHANGED <<plates, heap, ppMu, pMu, ppAdded, ppN>>

\* p, ok := pp.plates[plate]
RegLookup(t) ==
    /\ th[t].pc = "lookup"
    /\ th' = [th EXCEPT ![t].pc = "runlock",
                        ![t].ok = (th[t].plate \in DOMAIN plates),
                        ![t].p = IF th[t].plate \in DOMAIN plates
                                 THEN plates[th[t].plate] ELSE 0]
    /\ UNCHANGED <<plates, heap, ppMu, pMu, ppAdded, ppN>>

\* pp.mu.RUnlock(), and the test of ok after it
RegRUnlock(t) ==
    /\ th[t].pc = "runlock"
    /\ ppMu' = [ppMu EXCEPT !.r = @ \ {t}]
    /\ th' = [th EXCEPT ![t] =
                IF IsWriter(t)
                THEN [@ EXCEPT !.pc = IF th[t].ok THEN "plock" ELSE "new"]
                ELSE IF th[t].ok THEN [@ EXCEPT !.pc = "prlock"]
                ELSE [pc |-> "idle", op |-> th[t].op,
                      plate |-> th[t].plate, ret |-> <<>>,
                      during |-> th[t].during]]
    /\ UNCHANGED <<plates, heap, pMu, ppAdded, ppN>>

\* p = &pixPlate{...} of PixPlate.pixPlate
RegNew(t) ==
    /\ th[t].pc = "new"
    /\ heap' = Append(heap, [plate |-> th[t].plate, pix |-> <<>>])
    /\ pMu' = Append(pMu, Unlocked)
    /\ th' = [th EXCEPT ![t].pc = "lock", ![t].p = Len(heap) + 1]
    /\ UNCHANGED <<plates, ppMu, ppAdded, ppN>>

\* pp.mu.Lock() of PixPlate.pixPlate
RegLock(t) ==
    /\ th[t].pc = "lock"
    /\ CanLock(ppMu)
    /\ ppMu' = [ppMu EXCEPT !.w = t]
    /\ th' = [th EXCEPT ![t].pc = "store"]
    /\ UNCHANGED <<plates, heap, pMu, ppAdded, ppN>>

\* pp.plates[plate] = p
RegStore(t) ==
    /\ th[t].pc = "store"
    /\ plates' = [q \in DOMAIN plates \cup {th[t].plate} |->
                    IF q = th[t].plate THEN th[t].p ELSE plates[q]]
    /\ th' = Observe([th EXCEPT ![t].pc = "unlock"], plates', heap)
    /\ UNCHANGED <<heap, ppMu, pMu, ppAdded, ppN>>

\* pp.mu.Unlock() of PixPlate.pixPlate
RegUnlock(t) ==
    /\ th[t].pc = "unlock"
    /\ ppMu' = [ppMu EXCEPT !.w = 0]
    /\ th' = [th EXCEPT ![t].pc = "plock"]
    /\ UNCHANGED <<plates, heap, pMu, ppAdded, ppN>>

\* p.mu.Lock() of Add and AddPixels
PlateLock(t) ==
    /\ th[t].pc = "plock"
    /\ CanLock(pMu[th[t].p])
    /\ pMu' = [pMu EXCEPT ![th[t].p].w = t]
    /\ th' = [th EXCEPT ![t].pc = "add"]
    /\ UNCHANGED <<plates, heap, ppMu, ppAdded, ppN>>

\* the value that stands for the pixel of coordinates that Pixelation.Pixel
\* does not take
NoPixel == -1

\* a call of Add with coordinates that are not valid
InvalidCoords(c) == c.op = "Add" /\ c.pixels = <<NoPixel>>

\* one turn of the loop of AddPixels, or the p.add of Add: an ID that is
\* not a pixel panics, and the deferred unlock runs
PlateAdd(t) ==
    /\ th[t].pc = "add"
    /\ ~InvalidCoords(th[t])
    /\ LET c == th[t]
       IN  IF c.k > Len(c.pixels)
           THEN /\ th' = [th EXCEPT ![t].pc = "punlock"]
                /\ UNCHANGED <<heap, ppAdded>>
           ELSE IF c.pixels[c.k] >= PpLen
           THEN /\ th' = [th EXCEPT ![t].pc = "panic"]
                /\ UNCHANGED <<heap, ppAdded>>
           ELSE /\ heap' = [heap EXCEPT ![c.p].pix =
                              add(@, heap[c.p].plate, c.pixels[c.k], c.name,
                                  c.begin, c.end)]
                /\ ppAdded' = ppAdded \cup {<<c.plate, c.pixels[c.k]>>}
                /\ th' = Observe([th EXCEPT ![t].k = @ + 1], plates, heap')
    /\ UNCHANGED <<plates, ppMu, pMu, ppN>>

\* p.mu.Unlock() of Add and AddPixels; after a panic the call is over
\* without a result
PlateUnlock(t) ==
    /\ th[t].pc \in {"punlock", "panic"}
    /\ pMu' = [pMu EXCEPT ![th[t].p].w = 0]
    /\ th' = [th EXCEPT ![t] =
                [pc |-> "idle", op |-> th[t].op, plate |-> th[t].plate,
                 panic |-> (th[t].pc = "panic")]]
    /\ UNCHANGED <<plates, heap, ppMu, ppAdded, ppN>>

\* p.mu.RLock() of Pixels
PlateRLock(t) ==
    /\ th[t].pc = "prlock"
    /\ CanRLock(pMu[th[t].p])
    /\ pMu' = [pMu EXCEPT ![th[t].p].r = @ \cup {t}]
    /\ th' = [th EXCEPT ![t].pc = "pread"]
    /\ UNCHANGED <<plates, heap, ppMu, ppAdded, ppN>>

\* the loop of Pixels over p.pix: the IDs are copied into a new slice;
\* px, ok := p.pix[pixel] of Pixel
PlateRead(t) ==
    /\ th[t].pc = "pread"
    /\ th' = [th EXCEPT ![t].pc = "prunlock",
                        ![t].pxs =
                            IF th[t].op = "Pixel"
                            THEN IF th[t].id \in DOMAIN heap[th[t].p].pix
                                 THEN <<th[t].id>> ELSE <<>>
                            ELSE SortSet(DOMAIN heap[th[t].p].pix)]
    /\ UNCHANGED <<plates, heap, ppMu, pMu, ppAdded, ppN>>

\* p.mu.RUnlock() of Pixels and of Pixel, the sort and the return
PlateRUnlock(t) ==
    /\ th[t].pc = "prunlock"
    /\ pMu' = [pMu EXCEPT ![th[t].p].r = @ \ {t}]
    /\ th' = [th EXCEPT ![t] =
                [pc |-> "idle", op |-> th[t].op, plate |-> th[t].plate,
                 ret |-> th[t].pxs, during |-> th[t].during]]
    /\ UNCHANGED <<plates, heap, ppMu, ppAdded, ppN>>

\* pp.pix.Pixel(lat, lon) of Add panics with coordinates that are not
\* valid: p.mu is held, and Add has no deferred unlock
AddPanics(t) ==
    /\ th[t].pc = "add"
    /\ InvalidCoords(th[t])
    /\ th' = [th EXCEPT ![t] =
                [pc |-> "idle", op |-> "Add", plate |-> th[t].plate,
                 panic |-> TRUE]]
    /\ UNCHANGED <<plates, heap, ppMu, pMu, ppAdded, ppN>>

\* a thread calls Add with coordinates that are not valid
CallAddInvalid(t) ==
    /\ ppN < MaxCalls
    /\ \E plate \in PpPlates, name \in PpNames, begin \in PpBegins,
          end \in PpEnds : StartAdd(t, plate, name, NoPixel, begin, end)

\* a thread calls Pixel
CallPixel(t) ==
    /\ ppN < MaxCalls
    /\ th[t].pc = "idle"
    /\ ppN' = ppN + 1
    /\ \E plate \in PpPlates, id \in PpPixelIDs :
         th' = [th EXCEPT ![t] =
                [pc |-> "rlock", op |-> "Pixel", plate |-> plate, id |-> id,
                 p |-> 0, ok |-> FALSE, pxs |-> <<>>, during |-> {}]]
    /\ UNCHANGED <<plates, heap, ppMu, pMu, ppAdded>>

\* a thread calls Plates
CallPlates(t) ==
    /\ ppN < MaxCalls
    /\ th[t].pc = "idle"
    /\ ppN' = ppN + 1
    /\ th' = [th EXCEPT ![t] = [pc |-> "plrlock", op |-> "Plates"]]
    /\ UNCHANGED <<plates, heap, ppMu, pMu, ppAdded>>

\* pp.mu.RLock() of Plates
PlatesRLock(t) ==
    /\ th[t].pc = "plrlock"
    /\ CanRLock(ppMu)
    /\ ppMu' = [ppMu EXCEPT !.r = @ \cup {t}]
    /\ th' = [th EXCEPT ![t].pc = "plread"]
    /\ UNCHANGED <<plates, heap, pMu, ppAdded, ppN>>

\* the loop of Plates over pp.plates, and the sort
PlatesRead(t) ==
    /\ th[t].pc = "plread"
    /\ th' = [th EXCEPT ![t] =
                [pc |-> "plrunlock", op |-> "Plates",
                 ret |-> SortSet({heap[plates[q]].plate : q \in DOMAIN plates})]]
    /\ UNCHANGED <<plates, heap, ppMu, pMu, ppAdded, ppN>>

\* the deferred pp.mu.RUnlock() of Plates
PlatesRUnlock(t) ==
    /\ th[t].pc = "plrunlock"
    /\ ppMu' = [ppMu EXCEPT !.r = @ \ {t}]
    /\ th' = [th EXCEPT ![t].pc = "idle"]
    /\ UNCHANGED <<plates, heap, pMu, ppAdded, ppN>>

\* a thread calls TSV
CallTSV(t) ==
    /\ ppN < MaxCalls
    /\ th[t].pc = "idle"
    /\ ppN' = ppN + 1
    /\ th' = [th EXCEPT ![t] = [pc |-> "tlock", op |-> "TSV"]]
    /\ UNCHANGED <<plates, heap, ppMu, pMu, ppAdded>>

\* pp.mu.Lock() of TSV
TSVLock(t) ==
    /\ th[t].pc = "tlock"
    /\ CanLock(ppMu)
    /\ ppMu' = [ppMu EXCEPT !.w = t]
    /\ th' = [th EXCEPT ![t].pc = "tplates"]
    /\ UNCHANGED <<plates, heap, pMu, ppAdded, ppN>>

\* the loop of TSV over pp.plates, and the sort
TSVPlates(t) ==
    /\ th[t].pc = "tplates"
    /\ th' = [th EXCEPT ![t] =
                [pc |-> "tread", op |-> "TSV",
                 list |-> SortSet({heap[plates[q]].plate : q \in DOMAIN plates}),
                 k |-> 1, rows |-> <<>>]]
    /\ UNCHANGED <<plates, heap, ppMu, pMu, ppAdded, ppN>>

\* the plate object that a call of TSV is about to read
TSVPlate(c) == plates[c.list[c.k]]

\* one turn of the loop of TSV over the plates: the rows of the pixels of
\* p.pix, read without p.mu
TSVRead(t) ==
    /\ th[t].pc = "tread"
    /\ LET c == th[t]
       IN  IF c.k > Len(c.list)
           THEN th' = [th EXCEPT ![t].pc = "tunlock"]
           ELSE LET pix == heap[TSVPlate(c)].pix
                    pxs == SortSet(DOMAIN pix)
                IN  th' = [th EXCEPT
                            ![t].rows = @ \o [i \in 1..Len(pxs) |->
                                                <<c.list[c.k], pxs[i]>>],
                            ![t].k = @ + 1]
    /\ UNCHANGED <<plates, heap, ppMu, pMu, ppAdded, ppN>>

\* the deferred pp.mu.Unlock() of TSV
TSVUnlock(t) ==
    /\ th[t].pc = "tunlock"
    /\ ppMu' = [ppMu EXCEPT !.w = 0]
    /\ th' = [th EXCEPT ![t] =
                [pc |-> "idle", op |-> "TSV", ret |-> th[t].rows]]
    /\ UNCHANGED <<plates, heap, pMu, ppAdded, ppN>>

\* PixPlate.Pixels when no call is running
PpPixels(plate) ==
    IF plate \in DOMAIN plates
    THEN SortSet(DOMAIN heap[plates[plate]].pix)
    ELSE <<>>

PpCallAddPixels == (\E t \in Threads : CallAddPixels(t)) /\ UNCHANGED ppFrame
PpCallAdd == (\E t \in Threads : CallAdd(t)) /\ UNCHANGED ppFrame
PpCallPixels == (\E t \in Threads : CallPixels(t)) /\ UNCHANGED ppFrame
PpRegRLock == (\E t \in PpThreads : RegRLock(t)) /\ UNCHANGED ppFrame
PpRegLookup == (\E t \in PpThreads : RegLookup(t)) /\ UNCHANGED ppFrame
PpRegRUnlock == (\E t \in PpThreads : RegRUnlock(t)) /\ UNCHANGED ppFrame
PpRegNew == (\E t \in PpThreads : RegNew(t)) /\ UNCHANGED ppFrame
PpRegLock == (\E t \in PpThreads : RegLock(t)) /\ UNCHANGED ppFrame
PpRegStore == (\E t \in PpThreads : RegStore(t)) /\ UNCHANGED ppFrame
PpRegUnlock == (\E t \in PpThreads : RegUnlock(t)) /\ UNCHANGED ppFrame
PpPlateLock == (\E t \in PpThreads : PlateLock(t)) /\ UNCHANGED ppFrame
PpPlateAdd == (\E t \in PpThreads : PlateAdd(t)) /\ UNCHANGED ppFrame
PpPlateUnlock == (\E t \in PpThreads : PlateUnlock(t)) /\ UNCHANGED ppFrame
PpPlateRLock == (\E t \in PpThreads : PlateRLock(t)) /\ UNCHANGED ppFrame
PpPlateRead == (\E t \in PpThreads : PlateRead(t)) /\ UNCHANGED ppFrame
PpPlateRUnlock == (\E t \in PpThreads : PlateRUnlock(t)) /\ UNCHANGED ppFrame
PpCallAddInvalid == (\E t \in Threads : CallAddInvalid(t)) /\ UNCHANGED ppFrame
PpAddPanics == (\E t \in PpThreads : AddPanics(t)) /\ UNCHANGED ppFrame
PpCallPixel == (\E t \in PpThreads : CallPixel(t)) /\ UNCHANGED ppFrame
PpCallPlates == (\E t \in PpThreads : CallPlates(t)) /\ UNCHANGED ppFrame
PpPlatesRLock == (\E t \in PpThreads : PlatesRLock(t)) /\ UNCHANGED ppFrame
PpPlatesRead == (\E t \in PpThreads : PlatesRead(t)) /\ UNCHANGED ppFrame
PpPlatesRUnlock == (\E t \in PpThreads : PlatesRUnlock(t)) /\ UNCHANGED ppFrame
PpCallTSV == (\E t \in PpThreads : CallTSV(t)) /\ UNCHANGED ppFrame
PpTSVLock == (\E t \in PpThreads : TSVLock(t)) /\ UNCHANGED ppFrame
PpTSVPlates == (\E t \in PpThreads : TSVPlates(t)) /\ UNCHANGED ppFrame
PpTSVRead == (\E t \in PpThreads : TSVRead(t)) /\ UNCHANGED ppFrame
PpTSVUnlock == (\E t \in PpThreads : TSVUnlock(t)) /\ UNCHANGED ppFrame

\* the steps of the calls that are running
PpSteps ==
    \/ PpRegRLock
    \/ PpRegLookup
    \/ PpRegRUnlock
    \/ PpRegNew
    \/ PpRegLock
    \/ PpRegStore
    \/ PpRegUnlock
    \/ PpPlateLock
    \/ PpPlateAdd
    \/ PpAddPanics
    \/ PpPlateUnlock
    \/ PpPlateRLock
    \/ PpPlateRead
    \/ PpPlateRUnlock
    \/ PpPlatesRLock
    \/ PpPlatesRead
    \/ PpPlatesRUnlock
    \/ PpTSVLock
    \/ PpTSVPlates
    \/ PpTSVRead
    \/ PpTSVUnlock

\* the plate of the calls that are all on one plate
SnapPlate == 1

\* one goroutine adds pixels to one plate, call after call, with names
\* and time frames of every kind
AddNames == {"", "a", "b"}
AddBegins == {10, 20}
AddEnds == {0, 5}

AddAgain ==
    /\ ppN < MaxCalls
    /\ \E id \in PpPixelIDs, name \in AddNames, begin \in AddBegins,
          end \in AddEnds :
            StartAdd(1, SnapPlate, name, id, begin, end)
    /\ UNCHANGED ppFrame

\* two goroutines add pixels to one plate, each with one call, while a
\* third one reads the plate
SnapLists == {<<0>>, <<1>>}

SnapAddPixels ==
    /\ \E t \in Threads, pixels \in SnapLists, name \in PpNames,
          begin \in PpBegins, end \in PpEnds :
            /\ th[t] = ThIdle
            /\ StartAddPixels(t, SnapPlate, name, pixels, begin, end)
    /\ UNCHANGED ppFrame

SnapPixels ==
    /\ \E t \in PpThreads \ Threads :
            /\ th[t] = ThIdle
            /\ StartPixels(t, SnapPlate)
    /\ UNCHANGED ppFrame

(***************************************************************************)
(* The import command                                                      *)
(***************************************************************************)
\* the values of the flag --cpu, and of the flag --at in years
ImpCpus == 0..2
ImpAts == {0, 5, 20}
\* the features of the files: the plate, the pixels that Feature.Pixels
\* gives, and the time frame
ImpFeatures ==
    {[plate |-> SnapPlate, pixels |-> pxs, begin |-> 10, end |-> 0] :
        pxs \in SnapLists}
\* the most features of a file, and the most files
MaxFeatures == 1
MaxFiles == 2
\* a file: the features that readFeatures returns, or an error
ImpFiles ==
    {[err |-> TRUE, fs |-> <<>>]} \cup
    {[err |-> FALSE, fs |-> fs] :
        fs \in UNION {[1..n -> ImpFeatures] : n \in 0..MaxFeatures}}

\* what the import command leaves alone: it works on a PixPlate
impRest == <<tpVars, recVars, pixVars, rotVars, rasVars, kdeVars, pkVars, pwVars>>

ImpInit ==
    imp = [pc |-> "idle", cpu |-> 0, at |-> 0, readers |-> <<>>,
           closed |-> FALSE, workers |-> {}, done |-> FALSE, out |-> {},
           all |-> {}]

\* the test of the flag --at in read
AtSkips(at, f) == at # 0 /\ (f.begin < at \/ f.end > at)

\* the features of the files that read sends to the workers
RECURSIVE Passing(_, _)
Passing(at, fs) ==
    IF fs = <<>> THEN {}
    ELSE (IF AtSkips(at, Head(fs)) THEN {} ELSE {Head(fs)})
            \cup Passing(at, Tail(fs))

\* run up to its select: a reader goroutine for every file, cpu workers,
\* and the goroutine that waits for the workers
run(cpu, at, files) ==
    /\ imp.pc = "idle"
    /\ imp' = [pc |-> "select", cpu |-> cpu, at |-> at,
               readers |-> [r \in DOMAIN files |->
                            [st |-> IF files[r].err THEN "err" ELSE "send",
                             fs |-> files[r].fs, k |-> 1]],
               closed |-> FALSE, workers |-> 1..cpu, done |-> FALSE,
               out |-> {},
               all |-> UNION {Passing(at, files[r].fs) : r \in DOMAIN files}]
    /\ UNCHANGED ppVars

\* a reader skips a feature that the flag --at leaves out
ReaderSkip(r) ==
    /\ imp.pc = "select"
    /\ imp.readers[r].st = "send"
    /\ imp.readers[r].k <= Len(imp.readers[r].fs)
    /\ AtSkips(imp.at, imp.readers[r].fs[imp.readers[r].k])
    /\ imp' = [imp EXCEPT !.readers[r].k = @ + 1]
    /\ UNCHANGED ppVars

\* fc <- f of a reader and the receive of a worker that is at the range
\* over the channel: the worker calls AddPixels with the pixels of f
ReaderSend(r, t) ==
    /\ imp.pc = "select"
    /\ imp.readers[r].st = "send"
    /\ imp.readers[r].k <= Len(imp.readers[r].fs)
    /\ ~AtSkips(imp.at, imp.readers[r].fs[imp.readers[r].k])
    /\ t \in imp.workers
    /\ LET f == imp.readers[r].fs[imp.readers[r].k]
       IN  StartAddPixels(t, f.plate, "a", f.pixels, f.begin, f.end)
    /\ imp' = [imp EXCEPT !.readers[r].k = @ + 1]

\* the end of a reader goroutine after its last feature
ReaderDone(r) ==
    /\ imp.pc = "select"
    /\ imp.readers[r].st = "send"
    /\ imp.readers[r].k > Len(imp.readers[r].fs)
    /\ imp' = [imp EXCEPT !.readers[r].st = "done"]
    /\ UNCHANGED ppVars

\* wg.Wait() and close(fc) of read
CloseFeatures ==
    /\ imp.pc = "select"
    /\ ~imp.closed
    /\ \A r \in DOMAIN imp.readers : imp.readers[r].st = "done"
    /\ imp' = [imp EXCEPT !.closed = TRUE]
    /\ UNCHANGED ppVars

\* a worker that is at the range over the channel finds it closed
WorkerDone(t) ==
    /\ imp.pc = "select"
    /\ imp.closed
    /\ t \in imp.workers
    /\ th[t].pc = "idle"
    /\ imp' = [imp EXCEPT !.workers = @ \ {t}]
    /\ UNCHANGED ppVars

\* wg.Wait() and close(done) of run
CloseDone ==
    /\ imp.pc = "select"
    /\ ~imp.done
    /\ imp.workers = {}
    /\ imp' = [imp EXCEPT !.done = TRUE]
    /\ UNCHANGED ppVars

\* case err = <-errChan of the select of run, with ec <- err of a reader
SelectErr(r) ==
    /\ imp.pc = "select"
    /\ imp.readers[r].st = "err"
    /\ imp' = [imp EXCEPT !.pc = "error", !.readers[r].st = "done"]
    /\ UNCHANGED ppVars

\* case <-done of the select of run, and write: PixPlate.TSV writes the
\* pixels of the plates of the registry
SelectDone ==
    /\ imp.pc = "select"
    /\ imp.done
    /\ imp' = [imp EXCEPT
                !.pc = "written",
                !.out = UNION {{<<p, id>> : id \in PlateIDs(plates, heap, p)} :
                                p \in DOMAIN plates}]
    /\ UNCHANGED ppVars

ImpRun ==
    /\ \E cpu \in ImpCpus, at \in ImpAts, n \in 1..MaxFiles :
         \E files \in [1..n -> ImpFiles] : run(cpu, at, files)
    /\ UNCHANGED impRest

ImpReaderSkip ==
    /\ \E r \in DOMAIN imp.readers : ReaderSkip(r)
    /\ UNCHANGED impRest

ImpReaderSend ==
    /\ \E r \in DOMAIN imp.readers, t \in Threads : ReaderSend(r, t)
    /\ UNCHANGED impRest

ImpReaderDone ==
    /\ \E r \in DOMAIN imp.readers : ReaderDone(r)
    /\ UNCHANGED impRest

ImpCloseFeatures == CloseFeatures /\ UNCHANGED impRest

ImpWorkerDone ==
    /\ \E t \in Threads : WorkerDone(t)
    /\ UNCHANGED impRest

ImpCloseDone == CloseDone /\ UNCHANGED impRest

ImpSelectErr ==
    /\ \E r \in DOMAIN imp.readers : SelectErr(r)
    /\ UNCHANGED impRest

ImpSelectDone == SelectDone /\ UNCHANGED impRest

(***************************************************************************)
(* Properties of PixPlate                                                  *)
(***************************************************************************)
AllReturned == \A t \in PpThreads : th[t].pc = "idle"

\* C1: once all the calls have returned, Pixels(plate) holds every pixel
\* ID that an Add or AddPixels call added to the plate.
C1_NoLostUpdate ==
    AllReturned
        => \A pair \in ppAdded : pair[2] \in Range(PpPixels(pair[1]))

\* a thread holds a lock, shared or exclusive
HoldsShared(mu, t) == t \in mu.r \/ mu.w = t

HoldsExclusive(mu, t) == mu.w = t

\* C25: a call that is about to read or write the pixel map of a plate
\* holds the lock of that plate (shared to read, exclusive to write), and
\* a call that is about to read or write the registry of plates holds the
\* lock of the registry.
C25_AccessUnderLock ==
    \A t \in PpThreads :
        /\ th[t].pc \in {"lookup", "plread", "tplates"}
                => HoldsShared(ppMu, t)
        /\ th[t].pc = "store" => HoldsExclusive(ppMu, t)
        /\ th[t].pc = "add" => HoldsExclusive(pMu[th[t].p], t)
        /\ th[t].pc = "pread" => HoldsShared(pMu[th[t].p], t)
        /\ (th[t].pc = "tread" /\ th[t].k <= Len(th[t].list))
                => /\ HoldsShared(ppMu, t)
                   /\ HoldsShared(pMu[TSVPlate(th[t])], t)

\* C26: PixPlate never deadlocks: while a call has not returned, some
\* call can take a step, so that no call waits for a lock that nobody
\* is going to release.
C26_NoDeadlock ==
    (\E t \in PpThreads : th[t].pc # "idle") => ENABLED PpSteps

\* C24: when the import command has written its output and returns
\* without an error, the output has every pixel of every feature of the
\* files that the flag --at lets pass.
C24_ImportIsComplete ==
    imp.pc = "written"
        => \A f \in imp.all : \A id \in Range(f.pixels) :
                <<f.plate, id>> \in imp.out

\* a call of Add or AddPixels that has not returned
Writing(t) == th[t].pc # "idle" /\ IsWriter(t)

\* the thread t waits for the registry lock while u holds it
WaitsRegistry(t, u) ==
    \/ th[t].pc = "rlock" /\ ppMu.w = u
    \/ th[t].pc = "lock" /\ (ppMu.w = u \/ u \in ppMu.r)

\* the thread t waits for a plate lock while u holds it
WaitsPlate(t, u) ==
    /\ th[t].pc = "plock"
    /\ (pMu[th[t].p].w = u \/ u \in pMu[th[t].p].r)

\* C11 as stated: a writer never waits for a lock, of the registry or of
\* a plate, that a writer on another plate holds.
C11_Original ==
    \A t, u \in Threads :
        (t # u /\ Writing(t) /\ Writing(u) /\ th[t].plate # th[u].plate)
            => ~(WaitsRegistry(t, u) \/ WaitsPlate(t, u))

\* C11: a writer never waits for a plate lock that a writer on another
\* plate holds; it can wait for the registry lock, and the thread that
\* holds the registry lock is at the lookup or at the store of pixPlate,
\* where it waits for no lock.
C11_NoPlateWait ==
    /\ \A t, u \in Threads :
        (t # u /\ Writing(t) /\ Writing(u) /\ th[t].plate # th[u].plate)
            => ~WaitsPlate(t, u)
    /\ \A t \in PpThreads :
        /\ ppMu.w = t => th[t].pc \in {"store", "unlock"}
        /\ t \in ppMu.r => th[t].pc \in {"lookup", "runlock"}

\* two writers on different plates hold their plate locks at once
C11_Witness ==
    /\ Writing(1) /\ Writing(2)
    /\ th[1].plate # th[2].plate
    /\ th[1].pc = "add" /\ th[2].pc = "add"
    /\ pMu[th[1].p].w = 1 /\ pMu[th[2].p].w = 2

\* C12: the slice that Pixels returns lists in ascending order the pixel
\* IDs that the plate held at one instant during the call.
C12_PixelsIsSnapshot ==
    \A t \in PpThreads :
        (th[t].pc = "idle" /\ th[t] # ThIdle /\ th[t].op = "Pixels")
            => \E c \in th[t].during : th[t].ret = SortSet(c)

\* the turn of the loop in which the thread t adds again a pixel that the
\* plate holds
AddsAgain(t) ==
    /\ th[t].pc = "add"
    /\ th'[t].pc = "add"
    /\ th'[t].k = th[t].k + 1
    /\ th[t].pixels[th[t].k] \in DOMAIN heap[th[t].p].pix

\* C15 as stated: the name is replaced when the stored name is empty or
\* the new begin is greater than the stored one.
C15_Original ==
    [][\A t \in PpThreads :
        AddsAgain(t)
            => LET c == th[t]
                   old == heap[c.p].pix[c.pixels[c.k]]
                   new == heap'[c.p].pix[c.pixels[c.k]]
               IN  new.Name = IF old.Name = "" \/ c.begin > old.Begin
                              THEN c.name ELSE old.Name]_vars

\* C15: a pixel that is added again gets the greater begin and the lesser
\* end, and the new name when the stored name is empty, or when the new
\* begin is greater than the stored one and the new name is not empty;
\* else it keeps its name.
C15_AddMerges ==
    [][\A t \in PpThreads :
        AddsAgain(t)
            => LET c == th[t]
                   old == heap[c.p].pix[c.pixels[c.k]]
                   new == heap'[c.p].pix[c.pixels[c.k]]
               IN  /\ new.Begin = Max({old.Begin, c.begin})
                   /\ new.End = Min({old.End, c.end})
                   /\ new.Name =
                        IF old.Name = "" \/ (c.begin > old.Begin /\ c.name # "")
                        THEN c.name ELSE old.Name
                   /\ new.ID = old.ID /\ new.Plate = old.Plate]_vars

\* C15, its case: a second Add with an empty name and a begin of 20 has
\* left the name of the pixel as it was
C15_Witness ==
    /\ ppN = 2
    /\ th[1].pc = "punlock"
    /\ th[1].name = "" /\ th[1].begin = 20 /\ th[1].end = 0
    /\ heap[th[1].p].pix[th[1].pixels[1]] =
        [Name |-> "a", ID |-> th[1].pixels[1], Plate |-> SnapPlate,
         Begin |-> 20, End |-> 0]

(***************************************************************************)
(* Pixelation                                                              *)
(***************************************************************************)
\* the pixelation is NewPixelation(8)
PixEq == 8

\* coordinates are scaled by VecScale in the vector of a point
VecScale == 10000

\* pix.pixels after the loop of NewPixelation: the vector of a pixel is
\* the one that NewPoint makes for the latitude and longitude that
\* addPixels gives to the pixel
PixPixels ==
    << [id |-> 0, ring |-> 0, vec |-> <<0, 0, 10000>>],
       [id |-> 1, ring |-> 1, vec |-> <<-6124, -3536, 7071>>],
       [id |-> 2, ring |-> 1, vec |-> <<0, -7071, 7071>>],
       [id |-> 3, ring |-> 1, vec |-> <<6124, -3536, 7071>>],
       [id |-> 4, ring |-> 1, vec |-> <<6124, 3536, 7071>>],
       [id |-> 5, ring |-> 1, vec |-> <<0, 7071, 7071>>],
       [id |-> 6, ring |-> 1, vec |-> <<-6124, 3536, 7071>>],
       [id |-> 7, ring |-> 2, vec |-> <<-10000, 0, 0>>],
       [id |-> 8, ring |-> 2, vec |-> <<-7071, -7071, 0>>],
       [id |-> 9, ring |-> 2, vec |-> <<0, -10000, 0>>],
       [id |-> 10, ring |-> 2, vec |-> <<7071, -7071, 0>>],
       [id |-> 11, ring |-> 2, vec |-> <<10000, 0, 0>>],
       [id |-> 12, ring |-> 2, vec |-> <<7071, 7071, 0>>],
       [id |-> 13, ring |-> 2, vec |-> <<0, 10000, 0>>],
       [id |-> 14, ring |-> 2, vec |-> <<-7071, 7071, 0>>],
       [id |-> 15, ring |-> 3, vec |-> <<-6124, -3536, -7071>>],
       [id |-> 16, ring |-> 3, vec |-> <<0, -7071, -7071>>],
       [id |-> 17, ring |-> 3, vec |-> <<6124, -3536, -7071>>],
       [id |-> 18, ring |-> 3, vec |-> <<6124, 3536, -7071>>],
       [id |-> 19, ring |-> 3, vec |-> <<0, 7071, -7071>>],
       [id |-> 20, ring |-> 3, vec |-> <<-6124, 3536, -7071>>],
       [id |-> 21, ring |-> 4, vec |-> <<0, 0, -10000>>] >>

\* pix.rings: the index of the first pixel of each ring
PixRings ==
    [r \in 0..(PixEq \div 2) |->
        Min({k \in 1..Len(PixPixels) : PixPixels[k].ring = r}) - 1]

\* pix.cols
PixCols == PixEq * 10

\* the coordinates looked up: <<latitude, longitude>> in degrees
PixCoords ==
    {<<45, -121>>, <<45, -119>>, <<45, -150>>, <<0, 0>>, <<90, 0>>,
     <<-90, 0>>, <<0, 180>>, <<0, -180>>}

\* a latitude out of range
BadCoords == {<<91, 0>>}

\* the vector of NewPoint for the coordinates looked up
PointVec ==
    (<<45, -121>> :> <<-3642, -6061, 7071>>) @@
    (<<45, -119>> :> <<-3428, -6184, 7071>>) @@
    (<<45, -150>> :> <<-6124, -3536, 7071>>) @@
    (<<0, 0>> :> <<10000, 0, 0>>) @@
    (<<90, 0>> :> <<0, 0, 10000>>) @@
    (<<-90, 0>> :> <<0, 0, -10000>>) @@
    (<<0, 180>> :> <<-10000, 0, 0>>) @@
    (<<0, -180>> :> <<-10000, 0, 0>>)

NewPoint(lat, lon) == PointVec[<<lat, lon>>]

\* earth.Chord2
Chord2(p, q) ==
    (p[1] - q[1]) * (p[1] - q[1]) + (p[2] - q[2]) * (p[2] - q[2])
        + (p[3] - q[3]) * (p[3] - q[3])

\* the loop of Pixelation.closest from the position i of pix.pixels
RECURSIVE ClosestScan(_, _, _, _, _)
ClosestScan(i, ring, pt, min, id) ==
    IF i >= Len(PixPixels) \/ PixPixels[i + 1].ring > ring + 2
    THEN id
    ELSE LET c2 == Chord2(pt, PixPixels[i + 1].vec)
         IN  IF c2 < min
             THEN ClosestScan(i + 1, ring, pt, c2, PixPixels[i + 1].id)
             ELSE ClosestScan(i + 1, ring, pt, min, id)

\* Pixelation.closest
closest(ring, pt) ==
    LET r == IF ring > 0 THEN ring - 1 ELSE ring
    IN  ClosestScan(PixRings[r], r, pt, 2 * VecScale * VecScale, -1)

\* Pixelation.indexPos: iStep is 360 / cols
indexPos(lat, lon) ==
    LET x0 == ((lon + 180) * PixCols) \div 360
        x == IF x0 = PixCols THEN 0 ELSE x0
        y0 == ((90 - lat) * PixCols) \div 360
        y == IF y0 = PixCols \div 2 THEN (PixCols \div 2) - 1 ELSE y0
    IN  y * PixCols + x

\* the ring of getPixel: math.Round((90 - lat) / dStep), dStep is 360 / eq
RingOf(lat) == ((90 - lat) * 2 * PixEq + 360) \div 720

\* the nearest-pixel computation of getPixel
Nearest(lat, lon) == closest(RingOf(lat), NewPoint(lat, lon))

\* the slots of pix.index that the coordinates looked up use
PixSlots == {indexPos(c[1], c[2]) : c \in PixCoords}

PxIdle == [pc |-> "idle"]

PixInit ==
    /\ index = [s \in PixSlots |-> -1]
    /\ pixMu = Unlocked
    /\ pxt = [t \in Threads |-> PxIdle]
    /\ pixN = 0

\* Pixelation.Pixel: it panics if the coordinates are not valid, and
\* else getPixel starts with indexPos
Pixel(t, lat, lon) ==
    /\ pxt[t].pc = "idle"
    /\ pixN < MaxLookups
    /\ pixN' = pixN + 1
    /\ pxt' = [pxt EXCEPT ![t] =
                IF lat < -90 \/ lat > 90 \/ lon < -180 \/ lon > 180
                THEN [pc |-> "idle", lat |-> lat, lon |-> lon,
                      panic |-> TRUE, ret |-> -1]
                ELSE [pc |-> "rlock", lat |-> lat, lon |-> lon,
                      pos |-> indexPos(lat, lon), id |-> -1, hit |-> FALSE]]
    /\ UNCHANGED <<index, pixMu>>

\* pix.mu.RLock() of getPixel
GetRLock(t) ==
    /\ pxt[t].pc = "rlock"
    /\ CanRLock(pixMu)
    /\ pixMu' = [pixMu EXCEPT !.r = @ \cup {t}]
    /\ pxt' = [pxt EXCEPT ![t].pc = "read"]
    /\ UNCHANGED <<index, pixN>>

\* id := pix.index[pos]; hit keeps whether the slot was set (id != -1)
GetRead(t) ==
    /\ pxt[t].pc = "read"
    /\ pxt' = [pxt EXCEPT ![t].pc = "runlock", ![t].id = index[pxt[t].pos],
                          ![t].hit = (index[pxt[t].pos] # -1)]
    /\ UNCHANGED <<index, pixMu, pixN>>

\* a getPixel that goes on to closest and to the write after a hit too
GetRUnlockAlways(t) ==
    /\ pxt[t].pc = "runlock"
    /\ pixMu' = [pixMu EXCEPT !.r = @ \ {t}]
    /\ pxt' = [pxt EXCEPT ![t].pc = "closest"]
    /\ UNCHANGED <<index, pixN>>

\* pix.mu.RUnlock(), and the return of the pixel of a slot that is set
GetRUnlock(t) ==
    /\ pxt[t].pc = "runlock"
    /\ pixMu' = [pixMu EXCEPT !.r = @ \ {t}]
    /\ pxt' = [pxt EXCEPT ![t] =
                IF pxt[t].id # -1
                THEN [pc |-> "idle", lat |-> pxt[t].lat, lon |-> pxt[t].lon,
                      panic |-> FALSE, ret |-> PixPixels[pxt[t].id + 1].id]
                ELSE [@ EXCEPT !.pc = "closest"]]
    /\ UNCHANGED <<index, pixN>>

\* id = pix.closest(ring, pt)
GetClosest(t) ==
    /\ pxt[t].pc = "closest"
    /\ pxt' = [pxt EXCEPT ![t].pc = "lock",
                          ![t].id = Nearest(pxt[t].lat, pxt[t].lon)]
    /\ UNCHANGED <<index, pixMu, pixN>>

\* pix.mu.Lock() of getPixel
GetLock(t) ==
    /\ pxt[t].pc = "lock"
    /\ CanLock(pixMu)
    /\ pixMu' = [pixMu EXCEPT !.w = t]
    /\ pxt' = [pxt EXCEPT ![t].pc = "write"]
    /\ UNCHANGED <<index, pixN>>

\* pix.index[pos] = id
GetWrite(t) ==
    /\ pxt[t].pc = "write"
    /\ index' = [index EXCEPT ![pxt[t].pos] = pxt[t].id]
    /\ pxt' = [pxt EXCEPT ![t].pc = "unlock"]
    /\ UNCHANGED <<pixMu, pixN>>

\* pix.mu.Unlock() and the return of getPixel
GetUnlock(t) ==
    /\ pxt[t].pc = "unlock"
    /\ pixMu' = [pixMu EXCEPT !.w = 0]
    /\ pxt' = [pxt EXCEPT ![t] =
                [pc |-> "idle", lat |-> pxt[t].lat, lon |-> pxt[t].lon,
                 panic |-> FALSE, ret |-> PixPixels[pxt[t].id + 1].id]]
    /\ UNCHANGED <<index, pixN>>

PixPixel ==
    /\ \E t \in Threads, c \in PixCoords \cup BadCoords : Pixel(t, c[1], c[2])
    /\ UNCHANGED pixFrame

PixGetRLock == (\E t \in Threads : GetRLock(t)) /\ UNCHANGED pixFrame

PixGetRead == (\E t \in Threads : GetRead(t)) /\ UNCHANGED pixFrame

PixGetRUnlock == (\E t \in Threads : GetRUnlock(t)) /\ UNCHANGED pixFrame

PixGetClosest == (\E t \in Threads : GetClosest(t)) /\ UNCHANGED pixFrame

PixGetLock == (\E t \in Threads : GetLock(t)) /\ UNCHANGED pixFrame

PixGetWrite == (\E t \in Threads : GetWrite(t)) /\ UNCHANGED pixFrame

PixGetUnlock == (\E t \in Threads : GetUnlock(t)) /\ UNCHANGED pixFrame

(***************************************************************************)
(* Properties of Pixelation                                                *)
(***************************************************************************)
\* C3: the pixel that a lookup returns is the one that the nearest-pixel
\* computation gives for its coordinates, whatever lookups were made
\* before it or run with it.
C3_LookupIsNearest ==
    \A t \in Threads :
        (pxt[t].pc = "idle" /\ pxt[t] # PxIdle /\ ~pxt[t].panic)
            => pxt[t].ret = Nearest(pxt[t].lat, pxt[t].lon)

\* C30: a step that reads a slot of the index is made by a lookup that
\* holds the shared lock; a step that writes a slot is made by a lookup
\* that holds the exclusive lock and that found the slot empty when it
\* read it; and no other step changes the index.
C30_IndexUnderLock ==
    [][/\ \A t \in Threads :
            /\ (pxt[t].pc = "read" /\ pxt'[t].pc # "read") => t \in pixMu.r
            /\ (pxt[t].pc = "write" /\ pxt'[t].pc # "write")
                    => (pixMu.w = t /\ ~pxt[t].hit)
       /\ index' # index
            => \E t \in Threads :
                    /\ pxt[t].pc = "write" /\ pxt'[t].pc # "write"
                    /\ \A s \in PixSlots \ {pxt[t].pos} : index'[s] = index[s]
      ]_vars

\* C30, its case: two lookups missed the same slot; one has written it
\* under the exclusive lock and the other one, which found it empty, waits
\* for the lock to write it again
C30_Witness ==
    \E t, u \in Threads :
        /\ t # u
        /\ pxt[t].pc = "unlock"
        /\ pxt[u].pc = "lock"
        /\ pxt[u].pos = pxt[t].pos
        /\ index[pxt[t].pos] # -1
        /\ ~pxt[u].hit

(***************************************************************************)
(* Rotation                                                                *)
(***************************************************************************)
millionYears == 1000000

\* the moving plates, times (in million years) and fixed plates of the
\* rows of a file with a single plate
ReadPlates == {1}
ReadTimes == 0..3
ReadFixes == 0..2

\* and of a file with several plates
RotPlates == {1, 2}
RotTimes == -1..2
RotFixes == 0..2

\* the plates and times (in years) asked for
AskPlates == {1, 2, 3}
AskTimes == {-1000000, 0, 500000, 1000000, 2000000, 3000000}

RqIdle == [pc |-> "idle"]

\* Read has returned no error
NoErr == [row |-> 0, column |-> ""]

\* the pole of the rows of the files above, in degrees
ReadLats == {0}
ReadLons == {0}

RotInit ==
    /\ rots = <<>>
    /\ rdPhase = "reading"
    /\ rdN = 0
    /\ rdErr = NoErr
    /\ rq = RqIdle

\* one row of the file in the loop of Read: the values of the columns
\* are tested in turn, and Read returns with an error at the first bad
\* one; the rotation is added to its plate unless the plate has a
\* rotation with the same T and Fix
ReadRow(id, t, lat, lon, fix) ==
    /\ rdPhase = "reading"
    /\ rdN' = rdN + 1
    /\ IF lat < -90 \/ lat > 90
       THEN /\ rdPhase' = "error"
            /\ rdErr' = [row |-> rdN + 1, column |-> "latitude"]
            /\ UNCHANGED rots
       ELSE IF lat < -180 \/ lat > 180
       THEN /\ rdPhase' = "error"
            /\ rdErr' = [row |-> rdN + 1, column |-> "longitude"]
            /\ UNCHANGED rots
       ELSE LET rot == [T |-> t * millionYears, Lat |-> lat, Lon |-> lon,
                        Fix |-> fix]
                prot == IF id \in DOMAIN rots THEN rots[id] ELSE <<>>
                rep == \E k \in 1..Len(prot) :
                         prot[k].T = rot.T /\ prot[k].Fix = rot.Fix
            IN  /\ rots' = [q \in DOMAIN rots \cup {id} |->
                                IF q = id
                                THEN IF rep THEN prot ELSE Append(prot, rot)
                                ELSE rots[q]]
                /\ UNCHANGED <<rdPhase, rdErr>>
    /\ UNCHANGED rq

\* slices.SortFunc by T: an insertion sort for the lengths used here
InsertByT(s, e) ==
    LET k == Cardinality({i \in 1..Len(s) : s[i].T <= e.T})
    IN  SubSeq(s, 1, k) \o <<e>> \o SubSeq(s, k + 1, Len(s))

RECURSIVE SortByTFrom(_, _)
SortByTFrom(done, rest) ==
    IF rest = <<>> THEN done
    ELSE SortByTFrom(InsertByT(done, Head(rest)), Tail(rest))

SortByT(rot) == SortByTFrom(<<>>, rot)

\* the zero rotation, at the north pole, added when the first rotation is
\* after the present
AddZero(rot) ==
    IF rot[1].T > 0
    THEN <<[T |-> 0, Lat |-> 90, Lon |-> 0, Fix |-> rot[1].Fix]>> \o rot
    ELSE rot

\* the Fix of the first rotation with a T other than t on the positions
\* xs, taken in order; -1 if there is none
RECURSIVE FirstOtherFix(_, _, _)
FirstOtherFix(rot, xs, t) ==
    IF xs = <<>> THEN -1
    ELSE IF rot[Head(xs) + 1].T # t THEN rot[Head(xs) + 1].Fix
    ELSE FirstOtherFix(rot, Tail(xs), t)

\* the loop "remove wrong jumps" of Read from the position i
RECURSIVE RemoveJumps(_, _)
RemoveJumps(rot, i) ==
    IF i >= Len(rot) THEN rot
    ELSE IF i = 0 \/ i + 1 = Len(rot) THEN RemoveJumps(rot, i + 1)
    ELSE LET r == rot[i + 1]
             j == i + 1
             k == i - 1
             prev == FirstOtherFix(rot, [x \in 1..(i + 1) |-> i + 1 - x], r.T)
             post == FirstOtherFix(rot, [x \in 1..(Len(rot) - i) |-> i + x - 1], r.T)
         IN  IF rot[j + 1].T # r.T /\ rot[k + 1].T # r.T
             THEN RemoveJumps(rot, i + 1)
             ELSE IF prev = r.Fix THEN RemoveJumps(rot, i + 1)
             ELSE IF post = r.Fix THEN RemoveJumps(rot, i + 1)
             ELSE RemoveJumps(SubSeq(rot, 1, i) \o SubSeq(rot, i + 2, Len(rot)),
                              i + 1)

\* the loop that sorts the plate jumps of Read from the position i
RECURSIVE SortJumps(_, _)
SortJumps(rot, i) ==
    IF i >= Len(rot) THEN rot
    ELSE IF i = 0 \/ i + 1 = Len(rot) THEN SortJumps(rot, i + 1)
    ELSE LET r == rot[i + 1]
             j == i + 1
             k == i - 1
         IN  IF rot[j + 1].T # r.T THEN SortJumps(rot, i + 1)
             ELSE IF rot[k + 1].Fix # r.Fix
             THEN SortJumps([rot EXCEPT ![i + 1] = rot[j + 1],
                                        ![j + 1] = rot[i + 1]], i + 1)
             ELSE SortJumps(rot, i + 1)

\* what Read makes of the rotations of a plate after the last row
Normalize(rot) == SortJumps(RemoveJumps(AddZero(SortByT(rot)), 0), 0)

\* the end of the file: the loop over the plates, and the return
ReadEOF ==
    /\ rdPhase = "reading"
    /\ rdPhase' = "done"
    /\ rots' = [q \in DOMAIN rots |-> Normalize(rots[q])]
    /\ UNCHANGED <<rdN, rdErr, rq>>
    /\ UNCHANGED rotFrame

\* plate.timePos, as a position from 0
timePosAfter(rot, t) ==
    LET ge == {i \in 1..Len(rot) : rot[i].T > t}
    IN  IF ge = {} THEN -1 ELSE Min(ge) - 1

timePos(rot, t) ==
    LET ge == {i \in 1..Len(rot) : rot[i].T >= t}
    IN  IF ge = {} THEN -1 ELSE Min(ge) - 1

\* plate.stage at the position x (from 0): the two terms of delta, the
\* fraction of the stage rotation
stage(rot, x, t) == <<rot[x + 1].T - t, rot[x + 1].T - rot[x].T>>

\* Rotation.Rotation up to its loop; delta is the one of the last turn of
\* the loop, <<>> if the turn made no stage rotation
Rotation(plate, t) ==
    /\ rdPhase = "done"
    /\ rq.pc # "walk"
    /\ rq' = IF plate \notin DOMAIN rots \/ Len(rots[plate]) = 0
             THEN [pc |-> "done", plate |-> plate, t |-> t, found |-> FALSE,
                   panic |-> FALSE, delta |-> <<>>]
             ELSE [pc |-> "walk", plate |-> plate, t |-> t, p |-> plate,
                   i |-> 0, delta |-> <<>>]
    /\ UNCHANGED <<rots, rdPhase, rdN, rdErr>>

\* one turn of the loop of Rotation.Rotation: plate.stage reads the
\* rotation before the position x. The loop tests only i == 0: the count
\* of turns i is kept as 0 in the first turn, and then as 1 and 2 in turn
Walk ==
    /\ rq.pc = "walk"
    /\ LET rot == rots[rq.p]
           x == timePos(rot, rq.t)
           ret(found, panic, delta) ==
                [pc |-> "done", plate |-> rq.plate, t |-> rq.t,
                 found |-> found, panic |-> panic, delta |-> delta]
           delta == IF rot[x + 1].T # rq.t THEN stage(rot, x, rq.t) ELSE <<>>
       IN  rq' = IF x = -1 THEN ret(FALSE, FALSE, <<>>)
                 ELSE IF rot[x + 1].T # rq.t /\ x = 0
                 THEN ret(FALSE, TRUE, <<>>)
                 ELSE IF rot[x + 1].Fix \in DOMAIN rots
                 THEN [rq EXCEPT !.p = rot[x + 1].Fix,
                                 !.i = IF @ = 2 THEN 1 ELSE @ + 1,
                                 !.delta = delta]
                 ELSE ret(TRUE, FALSE, delta)
    /\ UNCHANGED <<rots, rdPhase, rdN, rdErr>>

ReadPlateRow ==
    /\ rdN < MaxRows
    /\ \E id \in ReadPlates, t \in ReadTimes, lat \in ReadLats,
          lon \in ReadLons, fix \in ReadFixes :
            ReadRow(id, t, lat, lon, fix)
    /\ UNCHANGED rotFrame

RotReadRow ==
    /\ rdN < MaxRotRows
    /\ \E id \in RotPlates, t \in RotTimes, lat \in ReadLats,
          lon \in ReadLons, fix \in RotFixes :
            ReadRow(id, t, lat, lon, fix)
    /\ UNCHANGED rotFrame

\* the rows of a file with poles in and out of the valid values
MaxPoleRows == 2
PoleTimes == 0..1
PoleLats == {-91, -90, 0, 90, 91}
PoleLons == {-181, -180, 0, 180, 181}
PoleFixes == {0}

ReadPoleRow ==
    /\ rdN < MaxPoleRows
    /\ \E id \in ReadPlates, t \in PoleTimes, lat \in PoleLats,
          lon \in PoleLons, fix \in PoleFixes :
            ReadRow(id, t, lat, lon, fix)
    /\ UNCHANGED rotFrame

RotRotation ==
    /\ \E plate \in AskPlates, t \in AskTimes : Rotation(plate, t)
    /\ UNCHANGED rotFrame

RotWalk == Walk /\ UNCHANGED rotFrame

(***************************************************************************)
(* Rasterizer of polygons                                                  *)
(***************************************************************************)
\* the latitudes, in degrees, of the points of the polygons given, and
\* the most points a polygon has
RasLats == {-90, -60, -30, -10, 0, 10, 30, 60, 80, 90}
MaxPoly == 2
RasPolygons == UNION {[1..n -> RasLats] : n \in 0..MaxPoly}

RasInit == ras = [pc |-> "idle"]

Abs(x) == IF x < 0 THEN -x ELSE x

\* Polygon.bounds: the north and south latitudes of the points from the
\* position i, north and south being the ones of the points before
RECURSIVE bounds(_, _, _, _)
bounds(poly, i, north, south) ==
    IF i > Len(poly) THEN [north |-> north, south |-> south]
    ELSE bounds(poly, i + 1,
                IF poly[i] > north THEN poly[i] ELSE north,
                IF poly[i] < south THEN poly[i] ELSE south)

\* hemisphere: TRUE for the northern hemisphere
hemisphere(north, south) ==
    IF south = -90 THEN FALSE
    ELSE IF north = 90 THEN TRUE
    ELSE IF north < 0 THEN FALSE
    ELSE IF south > 0 THEN TRUE
    ELSE north < Abs(south)

\* the nLat of azimuthal.xy: rho, the distance from the centre of the
\* image, is the radius times nLat in radians
nLat(hem, lat) == IF ~hem THEN lat + 90 ELSE 90 - lat

\* the latitude that azimuthal.xy sets on the centre of the image
Centre(hem) == CHOOSE lat \in {-90, 90} : nLat(hem, lat) = 0

\* raster.doRaster up to the making of the image
doRaster(poly) ==
    LET b == bounds(poly, 1, -90, 90)
        hem == hemisphere(b.north, b.south)
    IN  ras' = [pc |-> "done", poly |-> poly, north |-> b.north,
                south |-> b.south, hemisphere |-> hem,
                centre |-> Centre(hem)]

RasDoRaster ==
    /\ \E poly \in RasPolygons : doRaster(poly)
    /\ UNCHANGED rasFrame

\* C18: the image of a polygon with the north bound N and the south
\* bound S has the north pole on its centre exactly when S = -90, or N is
\* not 90 and N >= 0 and S >= 0, or |N| >= |S|; if not, it has the south
\* pole.
C18_HemisphereRule ==
    ras.pc = "done" =>
        /\ ras.centre \in {-90, 90}
        /\ ras.centre = 90 <=>
                \/ ras.south = -90
                \/ ras.north # 90 /\ ras.north >= 0 /\ ras.south >= 0
                \/ Abs(ras.north) >= Abs(ras.south)

(***************************************************************************)
(* KDE                                                                     *)
(***************************************************************************)
\* Pixelation.Len of the time pixelation
KdeLen == 3
KdePixels == 0..(KdeLen - 1)
\* the sums of the kernel over the points p at a pixel, and the weights
\* of the value that the time pixelation has at a pixel
KdeSums == {0, 1, 2, 3}
KdeWeights == {0, 1, 2}

KdeInit == kde = [pc |-> "idle"]

\* the loop "calculates the raw density of all pixels" from the pixel
\* px: a pixel with weight 0 or sum 0 is left out
RECURSIVE RawDensity(_, _, _, _)
RawDensity(sum, w, px, raw) ==
    IF px >= KdeLen THEN raw
    ELSE IF w[px] = 0 THEN RawDensity(sum, w, px + 1, raw)
    ELSE IF sum[px] = 0 THEN RawDensity(sum, w, px + 1, raw)
    ELSE RawDensity(sum, w, px + 1,
                    Append(raw, [pix |-> px, prob |-> sum[px] * w[px]]))

\* cum: the probs added in the same loop
RECURSIVE Cum(_)
Cum(raw) == IF raw = <<>> THEN 0 ELSE Head(raw).prob + Cum(Tail(raw))

\* slices.SortFunc with the descending comparison: an insertion sort for
\* the lengths used here, which leaves equal probs in their order
InsertByProb(s, e) ==
    LET k == Cardinality({i \in 1..Len(s) : s[i].prob >= e.prob})
    IN  SubSeq(s, 1, k) \o <<e>> \o SubSeq(s, k + 1, Len(s))

RECURSIVE SortByProbFrom(_, _)
SortByProbFrom(done, rest) ==
    IF rest = <<>> THEN done
    ELSE SortByProbFrom(InsertByProb(done, Head(rest)), Tail(rest))

SortByProb(raw) == SortByProbFrom(<<>>, raw)

\* the loop "scale values" from the position i of raw: the value cdf / cum
\* is kept as its two terms
RECURSIVE Scale(_, _, _, _, _)
Scale(raw, i, cdf, cum, density) ==
    IF i > Len(raw) THEN density
    ELSE Scale(raw, i + 1, cdf - raw[i].prob, cum,
               [q \in DOMAIN density \cup {raw[i].pix} |->
                    IF q = raw[i].pix THEN [num |-> cdf, den |-> cum]
                    ELSE density[q]])

\* KDE, given the sum of the kernel and the weight at every pixel
KDE(sum, w) ==
    LET raw == SortByProb(RawDensity(sum, w, 0, <<>>))
        cum == Cum(raw)
    IN  kde' = [pc |-> "done", raw |-> raw, cum |-> cum,
                density |-> Scale(raw, 1, cum, cum, <<>>)]

KdeKDE ==
    /\ \E sum \in [KdePixels -> KdeSums], w \in [KdePixels -> KdeWeights] :
            KDE(sum, w)
    /\ UNCHANGED kdeFrame

\* the mass of the pixels of raw with a raw mass strictly greater than p
MassAbove(raw, p) == Cum(SelectSeq(raw, LAMBDA r : r.prob > p))

\* the raw mass of a pixel of raw
MassOf(raw, px) == (CHOOSE r \in Range(raw) : r.pix = px).prob

\* C19: in the map returned by KDE the value of every pixel is 1 minus
\* the fraction of the total mass held by the pixels with a raw mass
\* strictly greater than its own, and is in (0, 1].
C19_KdeIsCdf ==
    kde.pc = "done" =>
        \A px \in DOMAIN kde.density :
            LET v == kde.density[px]
                above == MassAbove(kde.raw, MassOf(kde.raw, px))
            IN  /\ v.num * kde.cum = (kde.cum - above) * v.den
                /\ 0 < v.num
                /\ v.num <= v.den

(***************************************************************************)
(* PixKey                                                                  *)
(***************************************************************************)
\* a string is the sequence of its characters
PkKeys == {0, 1, 2}
PkColors == {"red"}
\* the labels given to SetLabel and Key
PkLabels ==
    {<<>>, <<" ">>, <<"a">>, <<"A">>, <<"a", " ">>, <<"1">>, <<"2">>,
     <<"a", " ", " ", "b">>, <<"A", " ", "B">>}
\* the labels of the rows of a key file, and the most rows of a file
PkFileLabels == {<<>>, <<"a">>, <<"A">>, <<"1">>}
MaxKeyRows == 2

\* New
PkInit == pk = [values |-> <<>>, labels |-> <<>>, color |-> <<>>]

\* strings.ToLower
ToLower(s) ==
    [i \in DOMAIN s |-> IF s[i] = "A" THEN "a"
                        ELSE IF s[i] = "B" THEN "b" ELSE s[i]]

\* strings.Fields from the position i: the words between the spaces
RECURSIVE FieldsFrom(_, _, _, _)
FieldsFrom(s, i, word, words) ==
    LET done == IF word = <<>> THEN words ELSE Append(words, word)
    IN  IF i > Len(s) THEN done
        ELSE IF s[i] = " " THEN FieldsFrom(s, i + 1, <<>>, done)
        ELSE FieldsFrom(s, i + 1, Append(word, s[i]), words)

Fields(s) == FieldsFrom(s, 1, <<>>, <<>>)

\* strings.Join
RECURSIVE Join(_, _)
Join(words, sep) ==
    IF words = <<>> THEN <<>>
    ELSE IF Len(words) = 1 THEN words[1]
    ELSE words[1] \o sep \o Join(Tail(words), sep)

\* the label as SetLabel, Key and Read take it
Normal(label) == Join(Fields(ToLower(label)), <<" ">>)

\* strconv.Itoa of a key
Itoa(k) == <<<<"0", "1", "2", "3">>[k + 1]>>

\* PixKey.Key
Key(p, label) ==
    LET l == Normal(label)
    IN  IF l = <<>> THEN 0
        ELSE IF l \in DOMAIN p.values THEN p.values[l] ELSE 0

\* PixKey.Label
Label(p, v) == IF v \in DOMAIN p.labels THEN p.labels[v] ELSE <<>>

\* PixKey.SetColor
SetColor(c, v) == pk' = [pk EXCEPT !.color = MapSet(@, v, c)]

\* PixKey.SetLabel
SetLabel(v, label) ==
    LET lb == Normal(label)
        l == Label(pk, v)
    IN  pk' = IF lb = <<>> THEN pk
              ELSE IF v \notin DOMAIN pk.color THEN pk
              ELSE IF l = lb THEN pk
              ELSE IF lb \in DOMAIN pk.values THEN pk
              ELSE [pk EXCEPT !.values = MapSet(MapDelete(@, l), lb, v),
                              !.labels = MapSet(@, v, lb)]

\* PixKey.TSV: what it does to the key; the rows go to the writer
TSV ==
    pk' = IF DOMAIN pk.labels = {}
          THEN [pk EXCEPT !.labels = [v \in DOMAIN pk.color |-> Itoa(v)]]
          ELSE pk

\* the loop over the rows of Read from the row i, on the key p made so
\* far; the result has the field err at the first bad row
RECURSIVE ReadRows(_, _, _, _)
ReadRows(p, rows, i, hasLabel) ==
    IF i > Len(rows) THEN p
    ELSE LET k == rows[i].key
             given == IF hasLabel THEN Normal(rows[i].label) ELSE <<>>
             label == IF given = <<>> THEN Itoa(k) ELSE given
         IN  IF k \in DOMAIN p.color THEN [err |-> i]
             ELSE IF label \in DOMAIN p.values THEN [err |-> i]
             ELSE ReadRows([values |-> MapSet(p.values, label, k),
                            labels |-> MapSet(p.labels, k, label),
                            color |-> MapSet(p.color, k, rows[i].color)],
                           rows, i + 1, hasLabel)

\* Read: the key of the file, which the caller takes if there is no error
Read(rows, hasLabel) ==
    LET p == ReadRows([values |-> <<>>, labels |-> <<>>, color |-> <<>>],
                      rows, 1, hasLabel)
    IN  pk' = IF "err" \in DOMAIN p THEN pk ELSE p

PkSetColor ==
    /\ \E c \in PkColors, v \in PkKeys : SetColor(c, v)
    /\ UNCHANGED pkFrame

PkSetLabel ==
    /\ \E v \in PkKeys, label \in PkLabels : SetLabel(v, label)
    /\ UNCHANGED pkFrame

PkTSV == TSV /\ UNCHANGED pkFrame

PkRead ==
    /\ \E n \in 0..MaxKeyRows, hasLabel \in BOOLEAN :
         \E rows \in [1..n -> [key : PkKeys, label : PkFileLabels,
                               color : PkColors]] :
            Read(rows, hasLabel)
    /\ UNCHANGED pkFrame

\* C20: no two keys have the same normalized label, and the key of the
\* label of every key that has a label is that key.
C20_LabelsAreUnique ==
    /\ \A v, u \in DOMAIN pk.labels :
            v # u => Normal(pk.labels[v]) # Normal(pk.labels[u])
    /\ \A v \in DOMAIN pk.labels : Key(pk, Label(pk, v)) = v

(***************************************************************************)
(* Pixel weights                                                           *)
(***************************************************************************)
\* a weight is a number of tenths: WOne is the weight 1
WOne == 10
\* the raster values and the weights given to Set and in the rows of a
\* file: -1 and 11 are not normalized weights
PwValues == {0, 1, 2}
PwWeights == {-1, 0, 5, 10, 11}
PwFileValues == {0, 1}
PwFileWeights == {0, 5, 11}
\* the most rows of a file of pixel weights
MaxWeightRows == 2

\* math.Log of a weight: minus infinity for 0, and the log of w if not
Log(w) == IF w = 0 THEN [inf |-> TRUE, of |-> 0] ELSE [inf |-> FALSE, of |-> w]

\* New
New == (0 :> [w |-> 0, ln |-> [inf |-> TRUE, of |-> 0]])

PwInit == pw = [px |-> New, last |-> [op |-> "New"]]

\* Pixel.Set
SetAtNext(v, w) ==
    pw' = IF w < 0 \/ w > WOne
          THEN [pw EXCEPT !.last = [op |-> "Set", v |-> v, w |-> w,
                                    err |-> TRUE]]
          ELSE [px |-> MapSet(pw.px, IF v = 1 THEN 0 ELSE v,
                              [w |-> w, ln |-> Log(w)]),
                last |-> [op |-> "Set", v |-> v, w |-> w, err |-> FALSE]]

SetWeight(v, w) ==
    pw' = IF w < 0 \/ w > WOne
          THEN [pw EXCEPT !.last = [op |-> "Set", v |-> v, w |-> w,
                                    err |-> TRUE]]
          ELSE [px |-> MapSet(pw.px, v, [w |-> w, ln |-> Log(w)]),
                last |-> [op |-> "Set", v |-> v, w |-> w, err |-> FALSE]]

\* the loop over the rows of ReadTSV from the row i, on the weights p
\* made so far; err is the first bad row, or 0
RECURSIVE ReadWeights(_, _, _)
ReadWeights(p, rows, i) ==
    IF i > Len(rows) THEN [err |-> 0, px |-> p]
    ELSE IF rows[i].w < 0 \/ rows[i].w > WOne THEN [err |-> i, px |-> p]
    ELSE ReadWeights(MapSet(p, rows[i].key,
                            [w |-> rows[i].w, ln |-> Log(rows[i].w)]),
                     rows, i + 1)

\* ReadTSV: the weights of the file, which the caller takes if there is
\* no error
ReadTSV(rows) ==
    LET p == ReadWeights(New, rows, 1)
        bad == p.err # 0
    IN  pw' = [px |-> IF bad THEN pw.px ELSE p.px,
               last |-> [op |-> "ReadTSV", rows |-> rows, err |-> bad]]

PwSet ==
    /\ \E v \in PwValues, w \in PwWeights : SetWeight(v, w)
    /\ UNCHANGED pwFrame

PwReadTSV ==
    /\ \E n \in 0..MaxWeightRows :
         \E rows \in [1..n -> [key : PwFileValues, w : PwFileWeights]] :
            ReadTSV(rows)
    /\ UNCHANGED pwFrame

\* the weight that the last call gave to the value 0: the one of a Set
\* for 0, the one of the last row for 0 of a file, and none (-1) if not
RECURSIVE LastOfZero(_, _)
LastOfZero(rows, w) ==
    IF rows = <<>> THEN w
    ELSE LastOfZero(Tail(rows), IF Head(rows).key = 0 THEN Head(rows).w ELSE w)

GivenToZero(last) ==
    IF last.op = "Set" /\ ~last.err /\ last.v = 0 THEN last.w
    ELSE IF last.op = "ReadTSV" /\ ~last.err THEN LastOfZero(last.rows, -1)
    ELSE -1

Sentinel == [w |-> 0, ln |-> [inf |-> TRUE, of |-> 0]]

\* C21 as it was stated: the value 0 is always in the set, with the
\* weight 0 and the log-weight minus infinity.
C21_Original == 0 \in DOMAIN pw.px /\ pw.px[0] = Sentinel

\* C21: the value 0 is always in the set; it has the weight 0 and the
\* log-weight minus infinity in a new set, a Set for another value or a
\* call that fails leaves its weight as it was, a Set for the value 0 or
\* a row for it in a file read gives it the weight given, and a file
\* read without a row for it gives it the weight 0 and the log-weight
\* minus infinity.
C21_ZeroStaysDefined ==
    [][/\ 0 \in DOMAIN pw.px
       /\ 0 \in DOMAIN pw'.px
       /\ pw'.px[0] =
            IF GivenToZero(pw'.last) # -1
            THEN [w |-> GivenToZero(pw'.last),
                  ln |-> Log(GivenToZero(pw'.last))]
            ELSE IF pw'.last.op = "ReadTSV" /\ ~pw'.last.err THEN Sentinel
            ELSE pw.px[0]]_vars

\* C21, its case: a Set for the value 0 gave it the weight 0.5, and it
\* is no longer the one of a new set
C21_Witness ==
    /\ pw.last.op = "Set"
    /\ pw.last.v = 0
    /\ pw.px[0] = [w |-> 5, ln |-> [inf |-> FALSE, of |-> 5]]

(***************************************************************************)
(* Properties of Rotation                                                  *)
(***************************************************************************)
\* C16: while Read has not failed with the error of a row, no rotation it
\* has taken from the rows has a pole with a latitude outside [-90, 90] or
\* a longitude outside [-180, 180]; an error of Read names the row read
\* last.
C16_BadPoleFails ==
    /\ rdPhase = "error" => rdErr.row = rdN
    /\ rdPhase # "error" =>
            \A q \in DOMAIN rots : \A k \in 1..Len(rots[q]) :
                /\ rots[q][k].Lat >= -90 /\ rots[q][k].Lat <= 90
                /\ rots[q][k].Lon >= -180 /\ rots[q][k].Lon <= 180

\* C9: after Read, in the rotations of every plate two consecutive
\* entries with different times have the same fix plate.
C9_IntervalsHaveOneFix ==
    rdPhase = "done"
        => \A q \in DOMAIN rots : \A i \in 1..(Len(rots[q]) - 1) :
                rots[q][i].T # rots[q][i + 1].T
                    => rots[q][i].Fix = rots[q][i + 1].Fix

\* C22: in a call of Rotation for t >= 0 no turn of the loop fails, and
\* a turn that makes a stage rotation makes it with a fraction delta that
\* has a divisor other than 0 and is in (0, 1): the rotation before the
\* position is there and is younger than t.
C22_StageFractionInside ==
    (rq.pc \in {"walk", "done"} /\ rq.t >= 0) =>
        /\ rq.pc = "done" => ~rq.panic
        /\ rq.delta # <<>> =>
                /\ rq.delta[2] # 0
                /\ 0 < rq.delta[1]
                /\ rq.delta[1] < rq.delta[2]

\* C22, its case: the rotation at 0.5 million years of a plate that has
\* rotations at 0 and at 1 million years is returned, made with half of
\* the stage rotation
C22_Witness ==
    /\ rq.pc = "done"
    /\ rq.found
    /\ rq.t = 500000
    /\ rq.delta = <<500000, 1000000>>

\* the plates on the chain of fix plates that starts at a plate, for the
\* time t: the chain goes on from a plate with a rotation at or after t
\* to the fix plate of that rotation
RECURSIVE Chain(_, _)
Chain(seen, t) ==
    LET next == {rots[q][timePos(rots[q], t) + 1].Fix :
                    q \in {c \in seen \cap DOMAIN rots :
                            timePos(rots[c], t) # -1}}
    IN  IF next \subseteq seen THEN seen ELSE Chain(seen \cup next, t)

\* the case in which Rotation reports that there is no rotation
NotFound(plate, t) ==
    \/ plate \notin DOMAIN rots
    \/ \E q \in Chain({plate}, t) \cap DOMAIN rots : timePos(rots[q], t) = -1

\* C5: for t >= 0 a call of Rotation returns; it reports not-found when
\* the plate is unknown or a plate on the chain of fix plates has no
\* rotation at or after t, and else it returns a rotation without failing.
C5_RotationReturns ==
    (rq.pc = "walk" /\ rq.t >= 0)
        ~> (/\ rq.pc = "done"
            /\ ~rq.panic
            /\ rq.found = ~NotFound(rq.plate, rq.t))

\* C27: a call of Rotation on a table that Read accepted ends, for every
\* plate and every t: the walk over the fix plates reaches a plate that
\* is not in the table or a plate without a rotation at or after t.
C27_RotationTerminates == (rq.pc = "walk") ~> (rq.pc = "done")

(***************************************************************************)
(* Properties of the closest stage                                         *)
(***************************************************************************)
\* the stages at or below an age, of an ascending list of stages
StagesUpTo(st, age) == {s \in Range(st) : s <= age}

IsClosestCall == tpq.op \in {"ClosestStageAge", "AtClosest"}

\* C6: a query age that is not a defined stage, and that has a defined
\* stage below it, resolves to the greatest defined stage <= the age:
\* ClosestStageAge returns that stage, and AtClosest returns the value the
\* pixel has at that stage.
C6_ClosestIsGreatestBelow ==
    (/\ IsClosestCall
     /\ tpq.age \notin Range(tpq.stages)
     /\ StagesUpTo(tpq.stages, tpq.age) # {})
        => LET want == Max(StagesUpTo(tpq.stages, tpq.age))
           IN  /\ ~tpq.res.panic
               /\ tpq.op = "ClosestStageAge" => tpq.res.val = want
               /\ tpq.op = "AtClosest"
                    => tpq.res.val = TpAt(want, tpq.pixel).val

\* C6, its case: with stages 100 and 140 the age 125 resolved to 100
C6_Witness ==
    /\ tpq.op = "ClosestStageAge"
    /\ tpq.stages = <<100, 140>>
    /\ tpq.age = 125
    /\ tpq.res = [panic |-> FALSE, val |-> 100]

\* C7: with at least one stage defined the closest stage is defined for
\* every age: the call does not fail, an age below the first stage gives
\* the first stage and an age above the last stage gives the last stage.
C7_ClosestNeverFails ==
    (/\ tpq.op = "ClosestStageAge"
     /\ tpq.stages # <<>>)
        => /\ ~tpq.res.panic
           /\ tpq.age < Head(tpq.stages) => tpq.res.val = Head(tpq.stages)
           /\ tpq.age > tpq.stages[Len(tpq.stages)]
                => tpq.res.val = tpq.stages[Len(tpq.stages)]

\* the query ages strictly between two defined stages
IsBetweenStages ==
    /\ tpq.op = "ClosestStageAge"
    /\ tpq.age \notin Range(tpq.stages)
    /\ \E y, o \in Range(tpq.stages) : y < tpq.age /\ tpq.age < o

\* C8, as stated: an age strictly between two defined stages gives the
\* first defined stage >= the age.
C8_Original ==
    IsBetweenStages
        => /\ ~tpq.res.panic
           /\ tpq.res.val = Min({s \in Range(tpq.stages) : s >= tpq.age})

\* C8, amended: an age strictly between two defined stages gives the last
\* defined stage below the age.
C8_ClosestBetweenIsYounger ==
    IsBetweenStages
        => /\ ~tpq.res.panic
           /\ tpq.res.val \in Range(tpq.stages)
           /\ tpq.res.val < tpq.age
           /\ \A s \in Range(tpq.stages) : s < tpq.age => s <= tpq.res.val

\* C8, its case: with stages 100, 125 and 140 the age 130 gave 125
C8_Witness ==
    /\ IsBetweenStages
    /\ tpq.stages = <<100, 125, 140>>
    /\ tpq.age = 130
    /\ tpq.res.val = 125


\* C13: for an age that is not below the first stage, Bounds gives as
\* young the greatest defined stage <= the age and as old the next
\* defined stage, or the age of the Earth after the last one; stages 100
\* and 140 give (140, 100) for 125 and (Age, 140) for 150.
C13_BoundsOfStage ==
    (/\ tpq.op = "Bounds"
     /\ StagesUpTo(tpq.stages, tpq.age) # {})
        => LET young == Max(StagesUpTo(tpq.stages, tpq.age))
               older == {s \in Range(tpq.stages) : s > young}
           IN  /\ ~tpq.res.panic
               /\ tpq.res.young = young
               /\ tpq.res.old = IF older = {} THEN Age ELSE Min(older)
               /\ (tpq.stages = <<100, 140>> /\ tpq.age = 125)
                    => (tpq.res.old = 140 /\ tpq.res.young = 100)
               /\ (tpq.stages = <<100, 140>> /\ tpq.age = 150)
                    => (tpq.res.old = Age /\ tpq.res.young = 140)

\* C13, its case: with stages 100, 125 and 140 the age 130 is between the
\* bounds 140 and 125
C13_Witness ==
    /\ tpq.op = "Bounds"
    /\ tpq.stages = <<100, 125, 140>>
    /\ tpq.age = 130
    /\ tpq.res = [panic |-> FALSE, old |-> 140, young |-> 125]

\* C14: At reports not-found exactly when no Set was made at the age; at
\* a defined stage it reports the value of the last Set of the pixel
\* that no Del followed, or 0, so that a Del never makes a stage undefined.
C14_AtFollowsSetDel ==
    tpq.op = "At"
        => /\ tpq.res.ok = (tpq.age \in tpEver)
           /\ tpq.res.val =
                IF <<tpq.age, tpq.pixel>> \in DOMAIN tpLast
                THEN tpLast[<<tpq.age, tpq.pixel>>]
                ELSE 0

\* C14, its case: At finds a stage whose pixels were all deleted
C14_Witness ==
    /\ tpq.op = "At"
    /\ tpq.age \in tpEver
    /\ \A k \in DOMAIN tpLast : k[1] # tpq.age
    /\ tpq.res = [val |-> 0, ok |-> TRUE]

(***************************************************************************)
(* Specifications                                                          *)
(***************************************************************************)
Init ==
    /\ TpInit
    /\ RecInit
    /\ PpInit
    /\ PixInit
    /\ RotInit
    /\ RasInit
    /\ KdeInit
    /\ PkInit
    /\ PwInit
    /\ ImpInit

NextTimePix ==
    \/ TpAtCall
    \/ TpBounds
    \/ TpSet
    \/ TpDel
    \/ TpClosestStageAge
    \/ TpAtClosestCall

SpecTimePix == Init /\ [][NextTimePix]_vars

NextRecons ==
    \/ RecAdd
    \/ RecReturn
    \/ CallInverseInverse
    \/ TotRotation

SpecRecons == Init /\ [][NextRecons]_vars

NextTSV ==
    \/ RecAdd
    \/ RecReturn
    \/ CallTSVRead

SpecTSV == Init /\ [][NextTSV]_vars

NextAny ==
    \/ RecAddAny
    \/ RecReturn

SpecAny == Init /\ [][NextAny]_vars

NextPixPlate ==
    \/ PpCallAddPixels
    \/ PpCallAdd
    \/ PpCallPixels
    \/ PpRegRLock
    \/ PpRegLookup
    \/ PpRegRUnlock
    \/ PpRegNew
    \/ PpRegLock
    \/ PpRegStore
    \/ PpRegUnlock
    \/ PpPlateLock
    \/ PpPlateAdd
    \/ PpPlateUnlock
    \/ PpPlateRLock
    \/ PpPlateRead
    \/ PpPlateRUnlock

SpecPixPlate == Init /\ [][NextPixPlate]_vars

NextLocks ==
    \/ PpCallAddPixels
    \/ PpCallAdd
    \/ PpCallAddInvalid
    \/ PpCallPixel
    \/ PpCallPixels
    \/ PpCallPlates
    \/ PpCallTSV
    \/ PpRegRLock
    \/ PpRegLookup
    \/ PpRegRUnlock
    \/ PpRegNew
    \/ PpRegLock
    \/ PpRegStore
    \/ PpRegUnlock
    \/ PpPlateLock
    \/ PpPlateAdd
    \/ PpAddPanics
    \/ PpPlateUnlock
    \/ PpPlateRLock
    \/ PpPlateRead
    \/ PpPlateRUnlock
    \/ PpPlatesRLock
    \/ PpPlatesRead
    \/ PpPlatesRUnlock
    \/ PpTSVLock
    \/ PpTSVPlates
    \/ PpTSVRead
    \/ PpTSVUnlock

SpecLocks == Init /\ [][NextLocks]_vars

NextImport ==
    \/ ImpRun
    \/ ImpReaderSkip
    \/ ImpReaderSend
    \/ ImpReaderDone
    \/ ImpCloseFeatures
    \/ ImpWorkerDone
    \/ ImpCloseDone
    \/ ImpSelectErr
    \/ ImpSelectDone
    \/ PpRegRLock
    \/ PpRegLookup
    \/ PpRegRUnlock
    \/ PpRegNew
    \/ PpRegLock
    \/ PpRegStore
    \/ PpRegUnlock
    \/ PpPlateLock
    \/ PpPlateAdd
    \/ PpPlateUnlock

SpecImport == Init /\ [][NextImport]_vars

NextSnapshot ==
    \/ SnapAddPixels
    \/ SnapPixels
    \/ PpRegRLock
    \/ PpRegLookup
    \/ PpRegRUnlock
    \/ PpRegNew
    \/ PpRegLock
    \/ PpRegStore
    \/ PpRegUnlock
    \/ PpPlateLock
    \/ PpPlateAdd
    \/ PpPlateUnlock
    \/ PpPlateRLock
    \/ PpPlateRead
    \/ PpPlateRUnlock

SpecSnapshot == Init /\ [][NextSnapshot]_vars

NextAdd ==
    \/ AddAgain
    \/ PpRegRLock
    \/ PpRegLookup
    \/ PpRegRUnlock
    \/ PpRegNew
    \/ PpRegLock
    \/ PpRegStore
    \/ PpRegUnlock
    \/ PpPlateLock
    \/ PpPlateAdd
    \/ PpPlateUnlock

SpecAdd == Init /\ [][NextAdd]_vars

NextPix ==
    \/ PixPixel
    \/ PixGetRLock
    \/ PixGetRead
    \/ PixGetRUnlock
    \/ PixGetClosest
    \/ PixGetLock
    \/ PixGetWrite
    \/ PixGetUnlock

SpecPix == Init /\ [][NextPix]_vars

NextRead ==
    \/ ReadPlateRow
    \/ ReadEOF

SpecRead == Init /\ [][NextRead]_vars

NextPole ==
    \/ ReadPoleRow
    \/ ReadEOF

SpecPole == Init /\ [][NextPole]_vars

NextRot ==
    \/ RotReadRow
    \/ ReadEOF
    \/ RotRotation
    \/ RotWalk

SpecRot == Init /\ [][NextRot]_vars

NextRaster == RasDoRaster

NextKde == KdeKDE

NextWeight ==
    \/ PwSet
    \/ PwReadTSV

SpecWeight == Init /\ [][NextWeight]_vars

NextKey ==
    \/ PkSetColor
    \/ PkSetLabel
    \/ PkTSV
    \/ PkRead

SpecKey == Init /\ [][NextKey]_vars

SpecKde == Init /\ [][NextKde]_vars

SpecRaster == Init /\ [][NextRaster]_vars

\* the loop of Rotation.Rotation goes on while it can
SpecRotFair == SpecRot /\ WF_vars(RotWalk)

====
